---- MODULE Spec2Model ----
(***************************************************************************)
(* A model of the RustedNES 6502 interpreter (src/src/cpu.rs): the Cpu     *)
(* object (registers, cycle counter, pending interrupt, memory), its       *)
(* public operations new, reset, step, trigger_nmi, trigger_irq and the    *)
(* Memory implementation it forwards (store_byte); and of what surrounds   *)
(* it: mapper 3 and create_mapper, the command-line program with its       *)
(* debugger, the AudioSink and the cpal audio driver.  Each has its own    *)
(* specification (Spec, SpecInsn, SpecMapper, SpecCli, SpecAudio); the     *)
(* objects a specification does not use stay as constructed.               *)
(*                                                                         *)
(* An instruction is executed by threading a machine record                *)
(*   [regs, cycles, mem, interrupt, panic, val, writes]                    *)
(* through one operator per Rust function, in the order of the Rust        *)
(* statements.  `val` carries a function's return value, `writes` the bus  *)
(* writes made so far, `panic` the reason of a Rust panic ("none" while    *)
(* the call is running normally).  After a panic nothing more happens.     *)
(* Inside an operator, Then(v, LAMBDA t : e) names the machine record v    *)
(* left by the statements so far as t in the statements e that follow.     *)
(***************************************************************************)
EXTENDS Integers, Sequences, FiniteSets, TLC

VARIABLES
    regs,             \* Cpu.regs : Regs {pc, a, x, y, sp, status}
    cycles,           \* Cpu.cycles : u64
    mem,              \* Cpu.mem : the 64 KiB the Memory holds (cells that differ from FillByte)
    interrupt,        \* Cpu.interrupt : "None" | "Nmi" | "Irq"
    overflow_checks,  \* the build: TRUE when `+`/`-` panic on overflow (debug), FALSE when they wrap (release)
    panicked,         \* "none", or the reason the process aborted
    call,             \* history: the last operation called on the Cpu
    ret,              \* history: the value the last step() returned
    op,               \* history: the opcode the last step() fetched (-1 if none)
    mid,              \* history: the Cpu right after handle_interrupts() of the last step()
    writes,           \* history: the bus writes of the last operation, in order
    nmi_requested,    \* history: trigger_nmi() was called since the last step() or reset()
    pre,              \* history: the objects right before the last operation
    mapper3,          \* Mapper3 {cartridge, chr_bank}
    vram,             \* the Vram the PPU hands to the mapper
    emulator,         \* Emulator {mode, breakpoints, labels, cursor, last_command, emulated_cycles} and nes.cpu.watchpoints
    cli,              \* the process: where main() is, its exit code, the two channels of the stdin thread, and what the last call printed
    sink,             \* AudioSink {buffer, buffer_pos}
    driver,           \* CpalDriver {sample_buffer, sample_rate} and the LinearResampler of its callback
    clock,            \* history: the value the last time_ns() returned (None before the first)
    arg               \* history: the arguments of the last call

cpuVars == <<regs, cycles, mem, interrupt, op, mid, writes, nmi_requested>>

mapperVars == <<mapper3, vram>>

cliVars == <<emulator, cli>>

audioVars == <<sink, driver, clock>>

vars == <<regs, cycles, mem, interrupt, overflow_checks, panicked,
          call, ret, op, mid, writes, nmi_requested, pre,
          mapper3, vram, emulator, cli, sink, driver, clock, arg>>

---------------------------------------------------------------------------
(* Bit arithmetic on bytes and words, as Rust's &, |, ^ on u8/u16.         *)
(* Bit(v, n) is the bit of v whose weight is n.                            *)

Bit(v, n) == (v \div n) % 2

\* p & q for p, q below 2^16
BitAnd(p, q) ==
      Bit(p, 1) * Bit(q, 1)
    + Bit(p, 2) * Bit(q, 2) * 2
    + Bit(p, 4) * Bit(q, 4) * 4
    + Bit(p, 8) * Bit(q, 8) * 8
    + Bit(p, 16) * Bit(q, 16) * 16
    + Bit(p, 32) * Bit(q, 32) * 32
    + Bit(p, 64) * Bit(q, 64) * 64
    + Bit(p, 128) * Bit(q, 128) * 128
    + Bit(p, 256) * Bit(q, 256) * 256
    + Bit(p, 512) * Bit(q, 512) * 512
    + Bit(p, 1024) * Bit(q, 1024) * 1024
    + Bit(p, 2048) * Bit(q, 2048) * 2048
    + Bit(p, 4096) * Bit(q, 4096) * 4096
    + Bit(p, 8192) * Bit(q, 8192) * 8192
    + Bit(p, 16384) * Bit(q, 16384) * 16384
    + Bit(p, 32768) * Bit(q, 32768) * 32768

BitOr(p, q) == p + q - BitAnd(p, q)

BitXor(p, q) == p + q - 2 * BitAnd(p, q)

---------------------------------------------------------------------------
(* bitflags! StatusFlags                                                    *)

CARRY == 1
ZERO_RESULT == 2
INTERRUPT_DISABLE == 4
DECIMAL_MODE == 8
BREAK_COMMAND == 16
EXPANSION == 32
OVERFLOW == 64
NEGATIVE_RESULT == 128

NMI_VECTOR == \hFFFA
IRQ_VECTOR == \hFFFE
RESET_VECTOR == \hFFFC
BRK_VECTOR == \hFFFE

OPCODE_CYCLES == <<
    7, 6, 2, 8, 3, 3, 5, 5, 3, 2, 2, 2, 4, 4, 6, 6,
    2, 5, 2, 8, 4, 4, 6, 6, 2, 4, 2, 7, 4, 4, 7, 7,
    6, 6, 2, 8, 3, 3, 5, 5, 4, 2, 2, 2, 4, 4, 6, 6,
    2, 5, 2, 8, 4, 4, 6, 6, 2, 4, 2, 7, 4, 4, 7, 7,
    6, 6, 2, 8, 3, 3, 5, 5, 3, 2, 2, 2, 3, 4, 6, 6,
    2, 5, 2, 8, 4, 4, 6, 6, 2, 4, 2, 7, 4, 4, 7, 7,
    6, 6, 2, 8, 3, 3, 5, 5, 4, 2, 2, 2, 5, 4, 6, 6,
    2, 5, 2, 8, 4, 4, 6, 6, 2, 4, 2, 7, 4, 4, 7, 7,
    2, 6, 2, 6, 3, 3, 3, 3, 2, 2, 2, 2, 4, 4, 4, 4,
    2, 6, 2, 6, 4, 4, 4, 4, 2, 5, 2, 5, 5, 5, 5, 5,
    2, 6, 2, 6, 3, 3, 3, 3, 2, 2, 2, 2, 4, 4, 4, 4,
    2, 5, 2, 5, 4, 4, 4, 4, 2, 4, 2, 4, 4, 4, 4, 4,
    2, 6, 2, 8, 3, 3, 5, 5, 2, 2, 2, 2, 4, 4, 6, 6,
    2, 5, 2, 8, 4, 4, 6, 6, 2, 4, 2, 7, 4, 4, 7, 7,
    2, 6, 2, 8, 3, 3, 5, 5, 2, 2, 2, 2, 4, 4, 6, 6,
    2, 5, 2, 8, 4, 4, 6, 6, 2, 4, 2, 7, 4, 4, 7, 7 >>

\* OPCODE_CYCLES[op as usize]: the Rust slice is indexed from 0
OpcodeCycles(o) == OPCODE_CYCLES[o + 1]

---------------------------------------------------------------------------
(* The machine record and Rust's checked / wrapping integer arithmetic.    *)

Running(s) == s.panic = "none"

Panic(s, why) == [s EXCEPT !.panic = why]

\* `p + q` on a type of `width` values: panics in a build with overflow
\* checks, wraps otherwise.  The result is returned in val.
add(s, p, q, width) ==
    IF ~Running(s) THEN s
    ELSE IF p + q >= width
         THEN IF overflow_checks THEN Panic(s, "overflow")
              ELSE [s EXCEPT !.val = (p + q) % width]
         ELSE [s EXCEPT !.val = p + q]

\* `p - q` on an unsigned type of `width` values
sub(s, p, q, width) ==
    IF ~Running(s) THEN s
    ELSE IF p - q < 0
         THEN IF overflow_checks THEN Panic(s, "overflow")
              ELSE [s EXCEPT !.val = (p - q) % width]
         ELSE [s EXCEPT !.val = p - q]

U8 == 256
U16 == 65536

---------------------------------------------------------------------------
(* Memory: the trait the Cpu is generic over.  memory.rs is not part of    *)
(* the sources; it is modelled as 64 KiB of flat RAM with a little-endian  *)
(* load_word, as the bus contract of the specification states.             *)

FillByte == \h00

MemByte(m, address) == IF address \in DOMAIN m THEN m[address] ELSE FillByte

MemPut(m, address, value) ==
    [b \in (DOMAIN m) \cup {address} |-> IF b = address THEN value ELSE m[b]]

MemWord(m, address) ==
    MemByte(m, address) + 256 * MemByte(m, (address + 1) % U16)

\* impl Memory for Cpu
load_byte(s, address) == MemByte(s.mem, address)

store_byte(s, address, value) ==
    IF ~Running(s) THEN s
    ELSE [s EXCEPT !.mem = MemPut(@, address, value),
                   !.writes = Append(@, <<address, value>>)]

load_word(s, address) == MemWord(s.mem, address)

mem_pages_same(m1, m2) == BitAnd(m1, \hFF00) = BitAnd(m2, \hFF00)

---------------------------------------------------------------------------
(* enum AddressMode, enum Register8: a mode is its variant name and, for   *)
(* the variants that carry one, the register ("-" otherwise).              *)

AddressMode(kind, reg) == [k |-> kind, r |-> reg]

---------------------------------------------------------------------------
(* Fetching                                                                *)

next_pc_byte(s) ==
    LET Then(v, K(_)) == K(v)
    IN  IF ~Running(s) THEN s
        ELSE Then(add(s, s.regs.pc, 1, U16), LAMBDA t :
             IF ~Running(t) THEN t
             ELSE [t EXCEPT !.regs.pc = t.val,
                            !.val = load_byte(s, s.regs.pc)])

next_pc_word(s) ==
    LET Then(v, K(_)) == K(v)
    IN  IF ~Running(s) THEN s
        ELSE Then(add(s, s.regs.pc, 2, U16), LAMBDA t :
             IF ~Running(t) THEN t
             ELSE [t EXCEPT !.regs.pc = t.val,
                            !.val = load_word(s, s.regs.pc)])

load_word_zero_page(s, offset) ==
    IF offset = \hFF
    THEN load_byte(s, \hFF) + load_byte(s, \h00) * 256
    ELSE load_word(s, offset)

---------------------------------------------------------------------------
(* Flag helpers and register helpers                                       *)

get_flag(s, sf) == BitAnd(s.regs.status, sf) = sf

set_flags(s, sf, value) ==
    IF ~Running(s) THEN s
    ELSE [s EXCEPT !.regs.status = IF value THEN BitOr(@, sf)
                                   ELSE BitAnd(@, 255 - sf)]

set_zero_negative(s, result) ==
    set_flags(set_flags(s, ZERO_RESULT, result = 0),
              NEGATIVE_RESULT, BitAnd(result, \h80) # 0)

get_register(s, r) ==
    CASE r = "A" -> s.regs.a
      [] r = "X" -> s.regs.x
      [] r = "Y" -> s.regs.y
      [] r = "Sp" -> s.regs.sp
      [] r = "Status" -> s.regs.status

\* StatusFlags::from_bits(val).unwrap(): the eight flags cover every bit of
\* a u8, so from_bits is Some(val) for every byte and unwrap never panics.
from_bits(val) == val

set_register(s, r, val) ==
    IF ~Running(s) THEN s
    ELSE CASE r = "A" -> [s EXCEPT !.regs.a = val]
           [] r = "X" -> [s EXCEPT !.regs.x = val]
           [] r = "Y" -> [s EXCEPT !.regs.y = val]
           [] r = "Sp" -> [s EXCEPT !.regs.sp = val]
           [] r = "Status" -> [s EXCEPT !.regs.status = from_bits(val)]

\* a changed add_cycles: `self.cycles = n` written for `self.cycles += n`
add_cycles_assign(s, n) ==
    IF ~Running(s) THEN s ELSE [s EXCEPT !.cycles = n]

\* self.cycles += n (u64: no overflow within the model's bounds)
add_cycles(s, n) ==
    IF ~Running(s) THEN s ELSE [s EXCEPT !.cycles = @ + n]

---------------------------------------------------------------------------
(* Operand access                                                          *)

\* fn load: the value read is returned in val
load(s, am) ==
    LET Then(v, K(_)) == K(v)
    IN  IF ~Running(s) THEN s
        ELSE CASE am.k = "Immediate" -> next_pc_byte(s)
          [] am.k = "Absolute" ->
                Then(next_pc_word(s), LAMBDA t :
                IF ~Running(t) THEN t
                ELSE [t EXCEPT !.val = load_byte(t, t.val)])
          [] am.k = "ZeroPage" ->
                Then(next_pc_byte(s), LAMBDA t :
                IF ~Running(t) THEN t
                ELSE [t EXCEPT !.val = load_byte(t, t.val)])
          [] am.k = "AbsoluteIndexed" ->
                Then(next_pc_word(s), LAMBDA t :
                LET base == t.val
                    index == get_register(t, am.r)
                IN  Then(add(t, base, index, U16), LAMBDA u :
                    LET addr == u.val
                    IN  IF ~Running(u) THEN u
                        ELSE Then(IF ~mem_pages_same(base, addr)
                                  THEN add_cycles(u, 1) ELSE u, LAMBDA w :
                             [w EXCEPT !.val = load_byte(w, addr)])))
          [] am.k = "ZeroPageIndexed" ->
                Then(next_pc_byte(s), LAMBDA t :
                LET base == t.val
                    index == get_register(t, am.r)
                IN  IF ~Running(t) THEN t
                    ELSE [t EXCEPT !.val = load_byte(t, base + index)])
          [] am.k = "IndexedIndirect" ->
                Then(next_pc_byte(s), LAMBDA t :
                LET base == t.val
                    index == get_register(t, am.r)
                IN  Then(add(t, base, index, U8), LAMBDA u :
                    LET addr == load_word_zero_page(u, u.val)
                    IN  IF ~Running(u) THEN u
                        ELSE [u EXCEPT !.val = load_byte(u, addr)]))
          [] am.k = "IndirectIndexed" ->
                Then(next_pc_byte(s), LAMBDA t :
                LET zp_offset == t.val
                    base == load_word_zero_page(t, zp_offset)
                    index == get_register(t, am.r)
                IN  Then(add(t, base, index, U16), LAMBDA u :
                    LET addr == u.val
                    IN  IF ~Running(u) THEN u
                        ELSE Then(IF ~mem_pages_same(base, addr)
                                  THEN add_cycles(u, 1) ELSE u, LAMBDA w :
                             [w EXCEPT !.val = load_byte(w, addr)])))
          [] am.k = "Register" -> [s EXCEPT !.val = get_register(s, am.r)]

\* fn store
store(s, am, val) ==
    LET Then(v, K(_)) == K(v)
    IN  IF ~Running(s) THEN s
        ELSE CASE am.k = "Absolute" ->
                Then(next_pc_word(s), LAMBDA t : store_byte(t, t.val, val))
          [] am.k = "ZeroPage" ->
                Then(next_pc_byte(s), LAMBDA t : store_byte(t, t.val, val))
          [] am.k = "AbsoluteIndexed" ->
                Then(next_pc_word(s), LAMBDA t :
                Then(add(t, t.val, get_register(t, am.r), U16), LAMBDA u :
                store_byte(u, u.val, val)))
          [] am.k = "ZeroPageIndexed" ->
                Then(next_pc_byte(s), LAMBDA t :
                store_byte(t, t.val + get_register(t, am.r), val))
          [] am.k = "IndexedIndirect" ->
                Then(next_pc_byte(s), LAMBDA t :
                Then(add(t, t.val, get_register(t, am.r), U8), LAMBDA u :
                store_byte(u, load_word_zero_page(u, u.val), val)))
          [] am.k = "IndirectIndexed" ->
                Then(next_pc_byte(s), LAMBDA t :
                LET base == load_word_zero_page(t, t.val)
                IN  Then(add(t, base, get_register(t, am.r), U16), LAMBDA u :
                    store_byte(u, u.val, val)))
          [] am.k = "Register" -> set_register(s, am.r, val)
          [] OTHER -> Panic(s, "Invalid address mode for store")

---------------------------------------------------------------------------
(* Instruction helpers                                                     *)

ld_reg(s, am, r) ==
    LET Then(v, K(_)) == K(v)
    IN  Then(load(s, am), LAMBDA t :
        set_register(set_zero_negative(t, t.val), r, t.val))

st_reg(s, am, r) == store(s, am, get_register(s, r))

\* (self.regs.pc as i16 + offset as i16) as u16: pc is reinterpreted as a
\* signed word, the u8 offset is zero-extended, the sum is an i16 addition.
branch_target(s, offset) ==
    IF ~Running(s) THEN s
    ELSE LET pci == IF s.regs.pc >= 32768 THEN s.regs.pc - U16 ELSE s.regs.pc
             sum == pci + offset
         IN  IF sum > 32767
             THEN IF overflow_checks THEN Panic(s, "overflow")
                  ELSE [s EXCEPT !.val = sum % U16]
             ELSE [s EXCEPT !.val = sum % U16]

\* a changed branch: no cycle is added for a target in another page
branch_without_page_cycle(s, cond) ==
    LET Then(v, K(_)) == K(v)
    IN  Then(next_pc_byte(s), LAMBDA t :
        LET offset == t.val
        IN  IF ~Running(t) \/ ~cond THEN t
            ELSE Then(branch_target(t, offset), LAMBDA u :
                 LET addr == u.val
                 IN  IF ~Running(u) THEN u
                     ELSE Then(add_cycles(u, 1), LAMBDA w :
                          [w EXCEPT !.regs.pc = addr])))

branch(s, cond) ==
    LET Then(v, K(_)) == K(v)
    IN  Then(next_pc_byte(s), LAMBDA t :
        LET offset == t.val
        IN  IF ~Running(t) \/ ~cond THEN t
            ELSE Then(branch_target(t, offset), LAMBDA u :
                 LET addr == u.val
                 IN  IF ~Running(u) THEN u
                     ELSE Then(add_cycles(u, 1), LAMBDA w :
                          Then(IF ~mem_pages_same(w.regs.pc, addr)
                               THEN add_cycles(w, 1) ELSE w, LAMBDA x :
                          [x EXCEPT !.regs.pc = addr]))))

compare(s, am, reg) ==
    LET Then(v, K(_)) == K(v)
    IN  Then(load(s, am), LAMBDA t :
        LET m == t.val
            r == get_register(t, reg)
        IN  Then(sub(t, r, m, U8), LAMBDA u :
            set_flags(set_zero_negative(u, u.val), CARRY, m <= r)))

\* Push byte onto the stack
push_byte(s, val) ==
    LET Then(v, K(_)) == K(v)
    IN  IF ~Running(s) THEN s
        ELSE Then(store_byte(s, BitOr(\h0100, s.regs.sp), val), LAMBDA t :
             Then(sub(t, t.regs.sp, 1, U8), LAMBDA u :
             IF ~Running(u) THEN u ELSE [u EXCEPT !.regs.sp = u.val]))

\* Pull byte from the stack: the byte is returned in val
pull_byte(s) ==
    LET Then(v, K(_)) == K(v)
    IN  IF ~Running(s) THEN s
        ELSE Then(add(s, s.regs.sp, 1, U8), LAMBDA t :
             IF ~Running(t) THEN t
             ELSE [t EXCEPT !.regs.sp = t.val,
                            !.val = load_byte(t, BitOr(\h0100, t.val))])

push_word(s, val) ==
    push_byte(push_byte(s, val \div 256), val % 256)

pull_word(s) ==
    LET Then(v, K(_)) == K(v)
    IN  Then(pull_byte(s), LAMBDA t :
        Then(pull_byte(t), LAMBDA u :
        LET lsb == t.val
            msb == u.val
        IN  IF ~Running(u) THEN u
            ELSE [u EXCEPT !.val = BitOr(msb * 256, lsb)]))

---------------------------------------------------------------------------
(* Instructions                                                            *)

\* a changed adc: the carry flag is not added
adc_without_carry_in(s, am) ==
    LET Then(v, K(_)) == K(v)
    IN  Then(load(s, am), LAMBDA t :
        LET m == t.val
            a == t.regs.a
            result32 == a + m
            result == result32 % 256
        IN  Then(set_flags(t, CARRY, BitAnd(result32, \h100) # 0), LAMBDA u :
            Then(set_flags(u, OVERFLOW,
                           (BitAnd(a, \h80) = BitAnd(m, \h80))
                           /\ (BitAnd(a, \h80) # BitAnd(result, \h80))), LAMBDA w :
            Then(set_zero_negative(w, result), LAMBDA x :
            IF ~Running(x) THEN x ELSE [x EXCEPT !.regs.a = result]))))

adc(s, am) ==
    LET Then(v, K(_)) == K(v)
    IN  Then(load(s, am), LAMBDA t :
        LET m == t.val
            a == t.regs.a
            \* u32 arithmetic: 255 + 255 + 1 never overflows
            result32 == a + m + (IF get_flag(t, CARRY) THEN 1 ELSE 0)
            result == result32 % 256
        IN  Then(set_flags(t, CARRY, BitAnd(result32, \h100) # 0), LAMBDA u :
            Then(set_flags(u, OVERFLOW,
                           (BitAnd(a, \h80) = BitAnd(m, \h80))
                           /\ (BitAnd(a, \h80) # BitAnd(result, \h80))), LAMBDA w :
            Then(set_zero_negative(w, result), LAMBDA x :
            IF ~Running(x) THEN x ELSE [x EXCEPT !.regs.a = result]))))

sbc(s, am) ==
    LET Then(v, K(_)) == K(v)
    IN  Then(load(s, am), LAMBDA t :
        LET m == t.val
            a == t.regs.a
        \* a as u32 - m as u32 - borrow, evaluated left to right in u32.  A
        \* wrapped difference is kept modulo 2^16, which divides 2^32: only
        \* its low nine bits are read below (& 0x100, as u8).
        IN  Then(sub(t, a, m, U16), LAMBDA d1 :
            Then(sub(d1, d1.val, IF get_flag(t, CARRY) THEN 0 ELSE 1, U16), LAMBDA d2 :
            LET result32 == d2.val
                result == result32 % 256
            IN  Then(set_flags(d2, CARRY, BitAnd(result32, \h100) = 0), LAMBDA u :
                Then(set_flags(u, OVERFLOW,
                               ~((BitAnd(a, \h80) # BitAnd(m, \h80))
                                 /\ (BitAnd(a, \h80) # BitAnd(result, \h80)))), LAMBDA w :
                Then(set_zero_negative(w, result), LAMBDA x :
                IF ~Running(x) THEN x ELSE [x EXCEPT !.regs.a = result]))))))

and(s, am) ==
    LET Then(v, K(_)) == K(v)
    IN  Then(load(s, am), LAMBDA t :
        LET result == BitAnd(t.val, t.regs.a)
        IN  Then(set_zero_negative(t, result), LAMBDA u :
            IF ~Running(u) THEN u ELSE [u EXCEPT !.regs.a = result]))

ora(s, am) ==
    LET Then(v, K(_)) == K(v)
    IN  Then(load(s, am), LAMBDA t :
        LET result == BitOr(t.val, t.regs.a)
        IN  Then(set_zero_negative(t, result), LAMBDA u :
            IF ~Running(u) THEN u ELSE [u EXCEPT !.regs.a = result]))

eor(s, am) ==
    LET Then(v, K(_)) == K(v)
    IN  Then(load(s, am), LAMBDA t :
        LET result == BitXor(t.val, t.regs.a)
        IN  Then(set_zero_negative(t, result), LAMBDA u :
            IF ~Running(u) THEN u ELSE [u EXCEPT !.regs.a = result]))

jmp(s) ==
    LET Then(v, K(_)) == K(v)
    IN  Then(next_pc_word(s), LAMBDA t :
        IF ~Running(t) THEN t ELSE [t EXCEPT !.regs.pc = t.val])

\* a changed jmpi: the high byte is always read from addr + 1
jmpi_next_page(s) ==
    LET Then(v, K(_)) == K(v)
    IN  Then(next_pc_word(s), LAMBDA t :
        LET addr == t.val
            lsb == load_byte(t, addr)
            msb == load_byte(t, (addr + 1) % U16)
        IN  IF ~Running(t) THEN t
            ELSE [t EXCEPT !.regs.pc = BitOr(msb * 256, lsb)])

jmpi(s) ==
    LET Then(v, K(_)) == K(v)
    IN  Then(next_pc_word(s), LAMBDA t :
        LET addr == t.val
            lsb == load_byte(t, addr)
            msb == load_byte(t, IF BitAnd(addr, \hFF) = \hFF
                                THEN BitAnd(addr, \hFF00)
                                ELSE addr + 1)
        IN  IF ~Running(t) THEN t
            ELSE [t EXCEPT !.regs.pc = BitOr(msb * 256, lsb)])

bit(s, am) ==
    LET Then(v, K(_)) == K(v)
    IN  Then(load(s, am), LAMBDA t :
        LET m == t.val
            a == t.regs.a
        IN  set_flags(set_flags(set_flags(t, NEGATIVE_RESULT, BitAnd(m, \h80) # 0),
                                OVERFLOW, BitAnd(m, \h40) # 0),
                      ZERO_RESULT, BitAnd(m, a) = 0))

inc(s, am) ==
    LET Then(v, K(_)) == K(v)
    IN  Then(load(s, am), LAMBDA t :
        Then(add(t, t.val, 1, U8), LAMBDA u :
        LET val == u.val
        IN  store(set_zero_negative(u, val), am, val)))

dec(s, am) ==
    LET Then(v, K(_)) == K(v)
    IN  Then(load(s, am), LAMBDA t :
        Then(sub(t, t.val, 1, U8), LAMBDA u :
        LET val == u.val
        IN  store(set_zero_negative(u, val), am, val)))

inx(s) ==
    LET Then(v, K(_)) == K(v)
    IN  Then(add(s, s.regs.x, 1, U8), LAMBDA u :
        Then(set_zero_negative(u, u.val), LAMBDA w :
        IF ~Running(w) THEN w ELSE [w EXCEPT !.regs.x = u.val]))

iny(s) ==
    LET Then(v, K(_)) == K(v)
    IN  Then(add(s, s.regs.y, 1, U8), LAMBDA u :
        Then(set_zero_negative(u, u.val), LAMBDA w :
        IF ~Running(w) THEN w ELSE [w EXCEPT !.regs.y = u.val]))

dex(s) ==
    LET Then(v, K(_)) == K(v)
    IN  Then(sub(s, s.regs.x, 1, U8), LAMBDA u :
        Then(set_zero_negative(u, u.val), LAMBDA w :
        IF ~Running(w) THEN w ELSE [w EXCEPT !.regs.x = u.val]))

dey(s) ==
    LET Then(v, K(_)) == K(v)
    IN  Then(sub(s, s.regs.y, 1, U8), LAMBDA u :
        Then(set_zero_negative(u, u.val), LAMBDA w :
        IF ~Running(w) THEN w ELSE [w EXCEPT !.regs.y = u.val]))

tax(s) ==
    LET Then(v, K(_)) == K(v)
    IN  Then(set_zero_negative(s, s.regs.a), LAMBDA w :
        IF ~Running(w) THEN w ELSE [w EXCEPT !.regs.x = s.regs.a])

txa(s) ==
    LET Then(v, K(_)) == K(v)
    IN  Then(set_zero_negative(s, s.regs.x), LAMBDA w :
        IF ~Running(w) THEN w ELSE [w EXCEPT !.regs.a = s.regs.x])

tay(s) ==
    LET Then(v, K(_)) == K(v)
    IN  Then(set_zero_negative(s, s.regs.a), LAMBDA w :
        IF ~Running(w) THEN w ELSE [w EXCEPT !.regs.y = s.regs.a])

tya(s) ==
    LET Then(v, K(_)) == K(v)
    IN  Then(set_zero_negative(s, s.regs.y), LAMBDA w :
        IF ~Running(w) THEN w ELSE [w EXCEPT !.regs.a = s.regs.y])

tsx(s) ==
    LET Then(v, K(_)) == K(v)
    IN  Then(set_zero_negative(s, s.regs.sp), LAMBDA w :
        IF ~Running(w) THEN w ELSE [w EXCEPT !.regs.x = s.regs.sp])

txs(s) ==
    IF ~Running(s) THEN s ELSE [s EXCEPT !.regs.sp = s.regs.x]

jsr(s) ==
    LET Then(v, K(_)) == K(v)
    IN  Then(next_pc_word(push_word(s, s.regs.pc)), LAMBDA u :
        IF ~Running(u) THEN u ELSE [u EXCEPT !.regs.pc = u.val])

rts(s) ==
    LET Then(v, K(_)) == K(v)
    IN  Then(pull_word(s), LAMBDA t :
        IF ~Running(t) THEN t ELSE [t EXCEPT !.regs.pc = t.val])

pha(s) == push_byte(s, s.regs.a)

pla(s) ==
    LET Then(v, K(_)) == K(v)
    IN  Then(pull_byte(s), LAMBDA t :
        Then(set_zero_negative(t, t.val), LAMBDA u :
        IF ~Running(u) THEN u ELSE [u EXCEPT !.regs.a = t.val]))

php(s) == push_byte(s, s.regs.status)

plp(s) ==
    LET Then(v, K(_)) == K(v)
    IN  Then(pull_byte(s), LAMBDA t :
        IF ~Running(t) THEN t ELSE [t EXCEPT !.regs.status = from_bits(t.val)])

lsr(s, am) ==
    LET Then(v, K(_)) == K(v)
    IN  Then(load(s, am), LAMBDA t :
        LET val == t.val
            result == BitAnd(val \div 2, \h7F)
        IN  store(set_flags(set_zero_negative(t, result),
                            CARRY, BitAnd(val, \h01) # 0),
                  am, result))

asl(s, am) ==
    LET Then(v, K(_)) == K(v)
    IN  Then(load(s, am), LAMBDA t :
        LET val == t.val
            result == BitAnd((val * 2) % 256, \hFE)
        IN  store(set_flags(set_zero_negative(t, result),
                            CARRY, BitAnd(val, \h80) # 0),
                  am, result))

ror(s, am) ==
    LET Then(v, K(_)) == K(v)
    IN  Then(load(s, am), LAMBDA t :
        LET val == t.val
            carry == IF get_flag(t, CARRY) THEN 128 ELSE 0
            result == BitOr(BitAnd(val \div 2, \h7F), carry)
        IN  store(set_flags(set_zero_negative(t, result),
                            CARRY, BitAnd(val, \h01) # 0),
                  am, result))

rol(s, am) ==
    LET Then(v, K(_)) == K(v)
    IN  Then(load(s, am), LAMBDA t :
        LET val == t.val
            carry == IF get_flag(t, CARRY) THEN 1 ELSE 0
            result == BitOr(BitAnd((val * 2) % 256, \hFE), carry)
        IN  store(set_flags(set_zero_negative(t, result),
                            CARRY, BitAnd(val, \h80) # 0),
                  am, result))

brk(s) ==
    LET Then(v, K(_)) == K(v)
        pc0 == s.regs.pc
        status == s.regs.status
    IN  Then(set_flags(push_byte(push_word(s, pc0), status),
                       INTERRUPT_DISABLE, TRUE), LAMBDA u :
        IF ~Running(u) THEN u
        ELSE [u EXCEPT !.regs.pc = load_word(u, BRK_VECTOR)])

\* a changed rti: the return address is pulled before the status byte
rti_pc_first(s) ==
    LET Then(v, K(_)) == K(v)
    IN  Then(pull_word(s), LAMBDA t :
        Then(pull_byte(t), LAMBDA u :
        IF ~Running(u) THEN u
        ELSE [u EXCEPT !.regs.status = from_bits(u.val),
                       !.regs.pc = t.val]))

rti(s) ==
    LET Then(v, K(_)) == K(v)
    IN  Then(pull_byte(s), LAMBDA t :
        Then(pull_word(t), LAMBDA u :
        LET status == t.val
        IN  IF ~Running(u) THEN u
            ELSE [u EXCEPT !.regs.status = from_bits(status),
                           !.regs.pc = u.val]))

(* Unofficial instructions *)

nop_2_bytes(s) ==
    LET Then(v, K(_)) == K(v)
    IN  Then(add(s, s.regs.pc, 1, U16), LAMBDA t :
        IF ~Running(t) THEN t ELSE [t EXCEPT !.regs.pc = t.val])

xaa(s) ==
    LET Then(v, K(_)) == K(v)
    IN  Then(next_pc_byte(s), LAMBDA t :
        LET imm == t.val
        IN  IF ~Running(t) THEN t
            ELSE [t EXCEPT !.regs.a = BitAnd(BitAnd(t.regs.a, t.regs.x), imm)])

lax(s, am) == tax(ld_reg(s, am, "A"))

slo(s, am) == ora(asl(s, am), am)

---------------------------------------------------------------------------
(* fn run_opcode: the arms of the match, in source order, each with its    *)
(* opcodes, the method it calls and the address mode it passes ("Implied"  *)
(* for a method without one).  Rust takes the first arm whose pattern      *)
(* matches, so an opcode listed twice always runs the earlier arm; an      *)
(* opcode in no arm reaches the `_ => panic!` arm.                         *)

Arms == <<
    <<{\hA9}, "lda", "Immediate", "-">>,
    <<{\hA5}, "lda", "ZeroPage", "-">>,
    <<{\hB5}, "lda", "ZeroPageIndexed", "X">>,
    <<{\hAD}, "lda", "Absolute", "-">>,
    <<{\hBD}, "lda", "AbsoluteIndexed", "X">>,
    <<{\hB9}, "lda", "AbsoluteIndexed", "Y">>,
    <<{\hA1}, "lda", "IndexedIndirect", "X">>,
    <<{\hB1}, "lda", "IndirectIndexed", "Y">>,
    <<{\hA2}, "ldx", "Immediate", "-">>,
    <<{\hA6}, "ldx", "ZeroPage", "-">>,
    <<{\hB6}, "ldx", "ZeroPageIndexed", "Y">>,
    <<{\hAE}, "ldx", "Absolute", "-">>,
    <<{\hBE}, "ldx", "AbsoluteIndexed", "Y">>,
    <<{\hA0}, "ldy", "Immediate", "-">>,
    <<{\hA4}, "ldy", "ZeroPage", "-">>,
    <<{\hB4}, "ldy", "ZeroPageIndexed", "X">>,
    <<{\hAC}, "ldy", "Absolute", "-">>,
    <<{\hBC}, "ldy", "AbsoluteIndexed", "X">>,
    <<{\h85}, "sta", "ZeroPage", "-">>,
    <<{\h95}, "sta", "ZeroPageIndexed", "X">>,
    <<{\h8D}, "sta", "Absolute", "-">>,
    <<{\h9D}, "sta", "AbsoluteIndexed", "X">>,
    <<{\h99}, "sta", "AbsoluteIndexed", "Y">>,
    <<{\h81}, "sta", "IndexedIndirect", "X">>,
    <<{\h91}, "sta", "IndirectIndexed", "Y">>,
    <<{\h86}, "stx", "ZeroPage", "-">>,
    <<{\h96}, "stx", "ZeroPageIndexed", "Y">>,
    <<{\h8E}, "stx", "Absolute", "-">>,
    <<{\h84}, "sty", "ZeroPage", "-">>,
    <<{\h94}, "sty", "ZeroPageIndexed", "X">>,
    <<{\h8C}, "sty", "Absolute", "-">>,
    <<{\h69}, "adc", "Immediate", "-">>,
    <<{\h65}, "adc", "ZeroPage", "-">>,
    <<{\h75}, "adc", "ZeroPageIndexed", "X">>,
    <<{\h6D}, "adc", "Absolute", "-">>,
    <<{\h7D}, "adc", "AbsoluteIndexed", "X">>,
    <<{\h79}, "adc", "AbsoluteIndexed", "Y">>,
    <<{\h61}, "adc", "IndexedIndirect", "X">>,
    <<{\h71}, "adc", "IndirectIndexed", "Y">>,
    <<{\hE9}, "sbc", "Immediate", "-">>,
    <<{\hE5}, "sbc", "ZeroPage", "-">>,
    <<{\hF5}, "sbc", "ZeroPageIndexed", "X">>,
    <<{\hED}, "sbc", "Absolute", "-">>,
    <<{\hFD}, "sbc", "AbsoluteIndexed", "X">>,
    <<{\hF9}, "sbc", "AbsoluteIndexed", "Y">>,
    <<{\hE1}, "sbc", "IndexedIndirect", "X">>,
    <<{\hF1}, "sbc", "IndirectIndexed", "Y">>,
    <<{\h29}, "and", "Immediate", "-">>,
    <<{\h25}, "and", "ZeroPage", "-">>,
    <<{\h35}, "and", "ZeroPageIndexed", "X">>,
    <<{\h2D}, "and", "Absolute", "-">>,
    <<{\h3D}, "and", "AbsoluteIndexed", "X">>,
    <<{\h39}, "and", "AbsoluteIndexed", "Y">>,
    <<{\h21}, "and", "IndexedIndirect", "X">>,
    <<{\h31}, "and", "IndirectIndexed", "Y">>,
    <<{\h09}, "ora", "Immediate", "-">>,
    <<{\h05}, "ora", "ZeroPage", "-">>,
    <<{\h15}, "ora", "ZeroPageIndexed", "X">>,
    <<{\h0D}, "ora", "Absolute", "-">>,
    <<{\h1D}, "ora", "AbsoluteIndexed", "X">>,
    <<{\h19}, "ora", "AbsoluteIndexed", "Y">>,
    <<{\h01}, "ora", "IndexedIndirect", "X">>,
    <<{\h11}, "ora", "IndirectIndexed", "Y">>,
    <<{\h49}, "eor", "Immediate", "-">>,
    <<{\h45}, "eor", "ZeroPage", "-">>,
    <<{\h55}, "eor", "ZeroPageIndexed", "X">>,
    <<{\h4D}, "eor", "Absolute", "-">>,
    <<{\h5D}, "eor", "AbsoluteIndexed", "X">>,
    <<{\h59}, "eor", "AbsoluteIndexed", "Y">>,
    <<{\h41}, "eor", "IndexedIndirect", "X">>,
    <<{\h51}, "eor", "IndirectIndexed", "Y">>,
    <<{\h38}, "sec", "Implied", "-">>,
    <<{\h18}, "clc", "Implied", "-">>,
    <<{\h78}, "sei", "Implied", "-">>,
    <<{\h58}, "cli", "Implied", "-">>,
    <<{\hF8}, "sed", "Implied", "-">>,
    <<{\hD8}, "cld", "Implied", "-">>,
    <<{\hB8}, "clv", "Implied", "-">>,
    <<{\h4C}, "jmp", "Implied", "-">>,
    <<{\h6C}, "jmpi", "Implied", "-">>,
    <<{\h30}, "bmi", "Implied", "-">>,
    <<{\h10}, "bpl", "Implied", "-">>,
    <<{\h90}, "bcc", "Implied", "-">>,
    <<{\hB0}, "bcs", "Implied", "-">>,
    <<{\hF0}, "beq", "Implied", "-">>,
    <<{\hD0}, "bne", "Implied", "-">>,
    <<{\h70}, "bvs", "Implied", "-">>,
    <<{\h50}, "bvc", "Implied", "-">>,
    <<{\hC9}, "cmp", "Immediate", "-">>,
    <<{\hC5}, "cmp", "ZeroPage", "-">>,
    <<{\hD5}, "cmp", "ZeroPageIndexed", "X">>,
    <<{\hCD}, "cmp", "Absolute", "-">>,
    <<{\hDD}, "cmp", "AbsoluteIndexed", "X">>,
    <<{\hD9}, "cmp", "AbsoluteIndexed", "Y">>,
    <<{\hC1}, "cmp", "IndexedIndirect", "X">>,
    <<{\hD1}, "cmp", "IndirectIndexed", "Y">>,
    <<{\hE0}, "cpx", "Immediate", "-">>,
    <<{\hE4}, "cpx", "ZeroPage", "-">>,
    <<{\hEC}, "cpx", "Absolute", "-">>,
    <<{\hC0}, "cpy", "Immediate", "-">>,
    <<{\hC4}, "cpy", "ZeroPage", "-">>,
    <<{\hCC}, "cpy", "Absolute", "-">>,
    <<{\h24}, "bit", "ZeroPage", "-">>,
    <<{\h2C}, "bit", "Absolute", "-">>,
    <<{\hE6}, "inc", "ZeroPage", "-">>,
    <<{\hF6}, "inc", "ZeroPageIndexed", "X">>,
    <<{\hEE}, "inc", "Absolute", "-">>,
    <<{\hFE}, "inc", "AbsoluteIndexed", "X">>,
    <<{\hC6}, "dec", "ZeroPage", "-">>,
    <<{\hD6}, "dec", "ZeroPageIndexed", "X">>,
    <<{\hCE}, "dec", "Absolute", "-">>,
    <<{\hDE}, "dec", "AbsoluteIndexed", "X">>,
    <<{\hE8}, "inx", "Implied", "-">>,
    <<{\hC8}, "iny", "Implied", "-">>,
    <<{\hCA}, "dex", "Implied", "-">>,
    <<{\h88}, "dey", "Implied", "-">>,
    <<{\hAA}, "tax", "Implied", "-">>,
    <<{\h8A}, "txa", "Implied", "-">>,
    <<{\hA8}, "tay", "Implied", "-">>,
    <<{\h98}, "tya", "Implied", "-">>,
    <<{\hBA}, "tsx", "Implied", "-">>,
    <<{\h9A}, "txs", "Implied", "-">>,
    <<{\h20}, "jsr", "Implied", "-">>,
    <<{\h60}, "rts", "Implied", "-">>,
    <<{\h48}, "pha", "Implied", "-">>,
    <<{\h68}, "pla", "Implied", "-">>,
    <<{\h08}, "php", "Implied", "-">>,
    <<{\h28}, "plp", "Implied", "-">>,
    <<{\h4A}, "lsr", "Register", "A">>,
    <<{\h46}, "lsr", "ZeroPage", "-">>,
    <<{\h56}, "lsr", "ZeroPageIndexed", "X">>,
    <<{\h4E}, "lsr", "Absolute", "-">>,
    <<{\h5E}, "lsr", "AbsoluteIndexed", "X">>,
    <<{\h0A}, "asl", "Register", "A">>,
    <<{\h06}, "asl", "ZeroPage", "-">>,
    <<{\h16}, "asl", "ZeroPageIndexed", "X">>,
    <<{\h0E}, "asl", "Absolute", "-">>,
    <<{\h1E}, "asl", "AbsoluteIndexed", "X">>,
    <<{\h2A}, "ror", "Register", "A">>,
    <<{\h26}, "ror", "ZeroPage", "-">>,
    <<{\h36}, "ror", "ZeroPageIndexed", "X">>,
    <<{\h2E}, "ror", "Absolute", "-">>,
    <<{\h3E}, "ror", "AbsoluteIndexed", "X">>,
    <<{\h2A}, "rol", "Register", "A">>,
    <<{\h26}, "rol", "ZeroPage", "-">>,
    <<{\h36}, "rol", "ZeroPageIndexed", "X">>,
    <<{\h2E}, "rol", "Absolute", "-">>,
    <<{\h3E}, "rol", "AbsoluteIndexed", "X">>,
    <<{\h00}, "brk", "Implied", "-">>,
    <<{\h40}, "rti", "Implied", "-">>,
    <<{\hEA}, "nop", "Implied", "-">>,
    <<{\h1A, \h3A, \h5A, \h7A, \hDA, \hEA, \hFA}, "nop", "Implied", "-">>,
    <<{\h80, \h82, \h89, \hC2, \hE2}, "nop_2_bytes", "Implied", "-">>,
    <<{\h8B}, "xaa", "Implied", "-">>,
    <<{\hA7}, "lax", "ZeroPage", "-">>,
    <<{\hB7}, "lax", "ZeroPageIndexed", "Y">>,
    <<{\hAF}, "lax", "Absolute", "-">>,
    <<{\hBF}, "lax", "AbsoluteIndexed", "Y">>,
    <<{\hA3}, "lax", "IndexedIndirect", "X">>,
    <<{\hB3}, "lax", "IndirectIndexed", "Y">>,
    <<{\h07}, "slo", "ZeroPage", "-">>,
    <<{\h17}, "slo", "ZeroPageIndexed", "X">>,
    <<{\h0F}, "slo", "Absolute", "-">>,
    <<{\h1B}, "slo", "AbsoluteIndexed", "Y">>,
    <<{\h1F}, "slo", "AbsoluteIndexed", "X">>,
    <<{\h03}, "slo", "IndexedIndirect", "X">>,
    <<{\h13}, "slo", "IndirectIndexed", "Y">> >>

\* the index of the arm the match selects for opcode o, 0 for the `_` arm
MatchArm(o) ==
    IF \E i \in 1..Len(Arms) : o \in Arms[i][1]
    THEN CHOOSE i \in 1..Len(Arms) :
            /\ o \in Arms[i][1]
            /\ \A j \in 1..(i - 1) : o \notin Arms[j][1]
    ELSE 0

\* the method an arm calls; the one-line methods (lda, sec, beq, cmp, nop,
\* ...) are written out
Exec(s, name, am) ==
    CASE name = "lda" -> ld_reg(s, am, "A")
      [] name = "ldx" -> ld_reg(s, am, "X")
      [] name = "ldy" -> ld_reg(s, am, "Y")
      [] name = "sta" -> st_reg(s, am, "A")
      [] name = "stx" -> st_reg(s, am, "X")
      [] name = "sty" -> st_reg(s, am, "Y")
      [] name = "adc" -> adc(s, am)
      [] name = "sbc" -> sbc(s, am)
      [] name = "and" -> and(s, am)
      [] name = "ora" -> ora(s, am)
      [] name = "eor" -> eor(s, am)
      [] name = "sec" -> set_flags(s, CARRY, TRUE)
      [] name = "clc" -> set_flags(s, CARRY, FALSE)
      [] name = "sei" -> set_flags(s, INTERRUPT_DISABLE, TRUE)
      [] name = "cli" -> set_flags(s, INTERRUPT_DISABLE, FALSE)
      [] name = "sed" -> set_flags(s, DECIMAL_MODE, TRUE)
      [] name = "cld" -> set_flags(s, DECIMAL_MODE, FALSE)
      [] name = "clv" -> set_flags(s, OVERFLOW, FALSE)
      [] name = "jmp" -> jmp(s)
      [] name = "jmpi" -> jmpi(s)
      [] name = "bmi" -> branch(s, get_flag(s, NEGATIVE_RESULT))
      [] name = "bpl" -> branch(s, ~get_flag(s, NEGATIVE_RESULT))
      [] name = "bcc" -> branch(s, ~get_flag(s, CARRY))
      [] name = "bcs" -> branch(s, get_flag(s, CARRY))
      [] name = "beq" -> branch(s, get_flag(s, ZERO_RESULT))
      [] name = "bne" -> branch(s, ~get_flag(s, ZERO_RESULT))
      [] name = "bvs" -> branch(s, get_flag(s, OVERFLOW))
      [] name = "bvc" -> branch(s, ~get_flag(s, OVERFLOW))
      [] name = "cmp" -> compare(s, am, "A")
      [] name = "cpx" -> compare(s, am, "X")
      [] name = "cpy" -> compare(s, am, "Y")
      [] name = "bit" -> bit(s, am)
      [] name = "inc" -> inc(s, am)
      [] name = "dec" -> dec(s, am)
      [] name = "inx" -> inx(s)
      [] name = "iny" -> iny(s)
      [] name = "dex" -> dex(s)
      [] name = "dey" -> dey(s)
      [] name = "tax" -> tax(s)
      [] name = "txa" -> txa(s)
      [] name = "tay" -> tay(s)
      [] name = "tya" -> tya(s)
      [] name = "tsx" -> tsx(s)
      [] name = "txs" -> txs(s)
      [] name = "jsr" -> jsr(s)
      [] name = "rts" -> rts(s)
      [] name = "pha" -> pha(s)
      [] name = "pla" -> pla(s)
      [] name = "php" -> php(s)
      [] name = "plp" -> plp(s)
      [] name = "lsr" -> lsr(s, am)
      [] name = "asl" -> asl(s, am)
      [] name = "ror" -> ror(s, am)
      [] name = "rol" -> rol(s, am)
      [] name = "brk" -> brk(s)
      [] name = "rti" -> rti(s)
      [] name = "nop" -> s
      [] name = "nop_2_bytes" -> nop_2_bytes(s)
      [] name = "xaa" -> xaa(s)
      [] name = "lax" -> lax(s, am)
      [] name = "slo" -> slo(s, am)

run_opcode(s, o) ==
    LET Then(v, K(_)) == K(v)
    IN  IF ~Running(s) THEN s
        ELSE Then(MatchArm(o), LAMBDA i :
             IF i = 0 THEN Panic(s, "Unimplemented op code")
             ELSE Then(Arms[i], LAMBDA arm :
                  Exec(s, arm[2], AddressMode(arm[3], arm[4]))))

---------------------------------------------------------------------------
(* Interrupts, reset, step                                                 *)

\* Cause NMI (Non-Maskable Interrupt) to be run on next step
trigger_nmi(s) == [s EXCEPT !.interrupt = "Nmi"]

\* Cause IRQ to be run on next step
trigger_irq(s) ==
    IF ~get_flag(s, INTERRUPT_DISABLE)
    THEN [s EXCEPT !.interrupt = "Irq"]
    ELSE s

\* a changed handle_interrupt: the status byte is pushed before the return
\* address
handle_interrupt_status_first(s, vector) ==
    LET Then(v, K(_)) == K(v)
        pc0 == s.regs.pc
        status == s.regs.status
    IN  Then(set_flags(push_word(push_byte(s, status), pc0),
                       INTERRUPT_DISABLE, TRUE), LAMBDA u :
        IF ~Running(u) THEN u
        ELSE add_cycles([u EXCEPT !.regs.pc = load_word(u, vector),
                                  !.interrupt = "None"], 7))

handle_interrupt(s, vector) ==
    LET Then(v, K(_)) == K(v)
        pc0 == s.regs.pc
        status == s.regs.status
    IN  Then(set_flags(push_byte(push_word(s, pc0), status),
                       INTERRUPT_DISABLE, TRUE), LAMBDA u :
        IF ~Running(u) THEN u
        ELSE add_cycles([u EXCEPT !.regs.pc = load_word(u, vector),
                                  !.interrupt = "None"], 7))

handle_interrupts(s) ==
    CASE s.interrupt = "Nmi" -> handle_interrupt(s, NMI_VECTOR)
      [] s.interrupt = "Irq" -> handle_interrupt(s, IRQ_VECTOR)
      [] s.interrupt = "None" -> s

\* a changed reset: the stack pointer is set to the top of page one
reset_sp_ff(s) ==
    [s EXCEPT !.regs.pc = load_word(s, RESET_VECTOR),
              !.regs.sp = \hFF,
              !.regs.status = BitOr(INTERRUPT_DISABLE, EXPANSION)]

reset(s) ==
    [s EXCEPT !.regs.pc = load_word(s, RESET_VECTOR),
              !.regs.sp = \hFD,
              !.regs.status = BitOr(INTERRUPT_DISABLE, EXPANSION)]

\* fn step, up to the opcode fetch: val is the opcode
step_fetch(s) == next_pc_byte(handle_interrupts(s))

\* a changed step: the table value is not added to the cycle counter
step_without_table(s) ==
    LET Then(v, K(_)) == K(v)
        c0 == s.cycles
    IN  Then(step_fetch(s), LAMBDA t :
        Then(run_opcode(t, t.val), LAMBDA u :
        IF ~Running(u) THEN u
        ELSE [u EXCEPT !.val = (u.cycles - c0) % 256]))

\* fn step: val is the returned cycle count
step(s) ==
    LET Then(v, K(_)) == K(v)
        c0 == s.cycles
    IN  Then(step_fetch(s), LAMBDA t :
        LET o == t.val
        IN  Then(add_cycles(run_opcode(t, o), OpcodeCycles(o)), LAMBDA u :
            IF ~Running(u) THEN u
            ELSE [u EXCEPT !.val = (u.cycles - c0) % 256]))

\* Regs::new and Cpu::new before its call of reset
new(memory) ==
    [regs |-> [pc |-> 0, a |-> 0, x |-> 0, y |-> 0, sp |-> 0, status |-> 0],
     cycles |-> 0,
     mem |-> memory,
     interrupt |-> "None",
     panic |-> "none", val |-> 0, writes |-> <<>>]

---------------------------------------------------------------------------
(* The memory images the Cpu is constructed on: a program at Origin, the   *)
(* three vectors, an RTI at each handler, a pointer at 0x00FF/0x0000 of    *)
(* the zero page and a byte on the stack page.  The rest holds FillByte.   *)

Origin == \h8000
NmiHandler == \h9000
IrqHandler == \hA000

\* the opcodes whose arm indexes its operand by the register r
Indexed(r) ==
    UNION { Arms[i][1] : i \in { j \in 1..Len(Arms) : Arms[j][4] = r } }

\* every opcode with the operand bytes FF 02 (zero page 0xFF, absolute
\* 0x02FF, offset 0xFF) and with the operand bytes FD FF (absolute 0xFFFD,
\* the high byte of the reset vector); every opcode indexed by X after
\* LDX #$01 and every opcode indexed by Y after LDY #$01; LDX #$01, TXS,
\* which leaves one byte of stack before SP wraps
Programs ==
    { <<o, \hFF, \h02>> : o \in 0..255 }
    \cup { <<o, \hFD, \hFF>> : o \in 0..255 }
    \cup { <<\hA2, \h01, o, \hFF, \h02>> : o \in Indexed("X") }
    \cup { <<\hA0, \h01, o, \hFF, \h02>> : o \in Indexed("Y") }
    \cup { <<\hA2, \h01, \h9A>> }

Image(prog) ==
    LET fixed == [a \in { \hFFFA, \hFFFB, \hFFFC, \hFFFD, \hFFFE, \hFFFF,
                          NmiHandler, IrqHandler, \hFF, \h00, \h01FE } |->
                    CASE a = \hFFFA -> NmiHandler % 256
                      [] a = \hFFFB -> NmiHandler \div 256
                      [] a = \hFFFC -> Origin % 256
                      [] a = \hFFFD -> Origin \div 256
                      [] a = \hFFFE -> IrqHandler % 256
                      [] a = \hFFFF -> IrqHandler \div 256
                      [] a = NmiHandler -> \h40
                      [] a = IrqHandler -> \h40
                      [] a = \hFF -> \hFF
                      [] a = \h00 -> \h02
                      [] a = \h01FE -> \h10]
    IN  [a \in (DOMAIN fixed) \cup { Origin + i - 1 : i \in 1..Len(prog) } |->
            IF a \in DOMAIN fixed THEN fixed[a] ELSE prog[a - Origin + 1]]

\* the step guard: the cycle counter is unbounded in the code
MaxCycles == 5

---------------------------------------------------------------------------
(* The cartridge and mapper 3 (sadnes-core/src/mapper/mapper3.rs).         *)
(* A Cartridge is [mapper, prg_rom, chr, mirroring]: prg_rom and chr are   *)
(* the lengths of the two byte vectors, whose contents never change and    *)
(* are PrgByte and ChrByte.  A mapper call threads the record              *)
(*   [cartridge, chr_bank, vram, panic, val]                               *)
(* in the way a Cpu call threads the machine record.                       *)

\* cartridge.prg_rom[i]
PrgByte(i) == (i \div \h4000) * 128 + (i % 127)

\* cartridge.chr[i]
ChrByte(i) == (i \div \h2000) * 64 + (i % 61)

\* Mapper3::new
Mapper3_new(cartridge) == [cartridge |-> cartridge, chr_bank |-> 0]

chr_address(bank, address) ==
    BitOr(bank * \h2000, BitAnd(address, \h1FFF))

read_chr(s, address) ==
    LET rom_addr == chr_address(s.chr_bank, address)
    IN  IF rom_addr >= s.cartridge.chr
        THEN [s EXCEPT !.panic = "index out of bounds"]
        ELSE [s EXCEPT !.val = ChrByte(rom_addr)]

\* Mirroring::mirror_address: the nametable address folded into the 2 KiB
\* of VRAM, still based at 0x2000
mirror_address(s, address) ==
    LET a == address % \h1000
    IN  \h2000 +
        CASE s.cartridge.mirroring = "Horizontal" ->
                 Bit(a, \h400) * \h400 + (a % \h400)
          [] s.cartridge.mirroring = "Vertical" ->
                 Bit(a, \h800) * \h400 + (a % \h400)
          [] s.cartridge.mirroring = "SingleLower" -> a % \h400
          [] s.cartridge.mirroring = "SingleUpper" -> \h400 + (a % \h400)
          [] OTHER -> a

prg_read_byte(s, address) ==
    IF address < \h8000
    THEN [s EXCEPT !.val = 0]
    ELSE IF address - \h8000 >= s.cartridge.prg_rom
         THEN [s EXCEPT !.panic = "index out of bounds"]
         ELSE [s EXCEPT !.val = PrgByte(address - \h8000)]

prg_write_byte(s, address, value) ==
    IF address >= \h8000
    THEN IF s.cartridge.prg_rom \div \h2000 = 0
         THEN [s EXCEPT !.panic = "remainder with a divisor of zero"]
         ELSE [s EXCEPT !.chr_bank =
                   (value % (s.cartridge.prg_rom \div \h2000)) % 256]
    ELSE s

\* vram holds the cells of the 2 KiB of Vram that were written
ppu_read_byte(s, address) ==
    IF address < \h2000
    THEN read_chr(s, address)
    ELSE [s EXCEPT !.val =
              MemByte(s.vram, mirror_address(s, address) - \h2000)]

\* ppu_write_byte without its address test
ppu_write_byte_unguarded(s, address, value) ==
    [s EXCEPT !.vram =
         MemPut(s.vram, mirror_address(s, address) - \h2000, value)]

ppu_write_byte(s, address, value) ==
    IF address >= \h2000
    THEN [s EXCEPT !.vram =
              MemPut(s.vram, mirror_address(s, address) - \h2000, value)]
    ELSE s

\* mapper::create_mapper (src/src/mapper/mod.rs): val is the variant made
create_mapper(cartridge) ==
    CASE cartridge.mapper = 0 ->
             [panic |-> "none", val |-> "Nrom"]
      [] cartridge.mapper = 1 ->
             [panic |-> "none", val |-> "Mmc1"]
      [] OTHER ->
             [panic |-> "Unsupported mapper number", val |-> "none"]

---------------------------------------------------------------------------
(* The command-line front end (sadnes-cli/src/main.rs, emulator.rs).       *)
(* An Emulator call threads the record                                     *)
(*   [cpu, watchpoints, mode, breakpoints, labels, cursor, last_command,   *)
(*    emulated_cycles, stdin, prompts, out, log, stepped, panic, val]      *)
(* cpu is the machine record of nes.cpu and watchpoints its watchpoint     *)
(* set, stdin the lines waiting in stdin_receiver, prompts the number of   *)
(* prompts sent on prompt_sender and not yet answered, out what the call   *)
(* has printed.  The window and the clock are inputs of run's loop, so     *)
(* start_time_ns is not kept.  log and stepped are history: log lists what *)
(* the call did to the machine, a "step" for every nes.step() with the     *)
(* mode it was made in, the PC it left, the cycles it returned and its     *)
(* watchpoint flag, and a "debugger" for every start_debugger(); stepped   *)
(* is the sum of the cycles every nes.step() so far has returned.          *)

\* Option<T>: None is <<>>, Some(v) is <<v>>
None == <<>>

Some(v) == <<v>>

\* Emulator::new
Emulator_new ==
    [mode |-> "Running", breakpoints |-> {}, labels |-> <<>>, cursor |-> 0,
     last_command |-> None, emulated_cycles |-> 0, watchpoints |-> {}]

\* <Command as FromStr>::from_str: the lines the debugger understands
ParseTable ==
    [line \in { "", "r", "s", "s 2", "c", "g 8003", "m", "m 0200", "k", "d",
                "l", "al here 8002", "rl here", "b", "ab 8002", "rb 8002",
                "w", "aw 0200", "rw 0200", "q" } |->
        CASE line = "" -> [k |-> "Repeat"]
          [] line = "r" -> [k |-> "ShowRegs"]
          [] line = "s" -> [k |-> "Step", n |-> 1]
          [] line = "s 2" -> [k |-> "Step", n |-> 2]
          [] line = "c" -> [k |-> "Continue"]
          [] line = "g 8003" -> [k |-> "Goto", a |-> \h8003]
          [] line = "m" -> [k |-> "ShowMem", a |-> None]
          [] line = "m 0200" -> [k |-> "ShowMem", a |-> Some(\h0200)]
          [] line = "k" -> [k |-> "ShowStack"]
          [] line = "d" -> [k |-> "Disassemble", n |-> 1]
          [] line = "l" -> [k |-> "Label"]
          [] line = "al here 8002" -> [k |-> "AddLabel", l |-> "here", a |-> \h8002]
          [] line = "rl here" -> [k |-> "RemoveLabel", l |-> "here"]
          [] line = "b" -> [k |-> "Breakpoint"]
          [] line = "ab 8002" -> [k |-> "AddBreakpoint", a |-> \h8002]
          [] line = "rb 8002" -> [k |-> "RemoveBreakpoint", a |-> \h8002]
          [] line = "w" -> [k |-> "Watchpoint"]
          [] line = "aw 0200" -> [k |-> "AddWatchpoint", a |-> \h0200]
          [] line = "rw 0200" -> [k |-> "RemoveWatchpoint", a |-> \h0200]
          [] line = "q" -> [k |-> "Exit"]]

\* command_string.parse(): Ok(command) or Err(message)
parse(line) ==
    IF line \in DOMAIN ParseTable
    THEN [ok |-> TRUE, v |-> ParseTable[line]]
    ELSE [ok |-> FALSE, v |-> "Unable to parse command"]

\* Nes::step: the Cpu's step; val is (cycles, trigger_watchpoint), the flag
\* set when the instruction stored to a watched address
nes_step(e) ==
    LET Then(v, K(_)) == K(v)
    IN  Then(step([e.cpu EXCEPT !.writes = <<>>]), LAMBDA c :
        IF ~Running(c) THEN [e EXCEPT !.cpu = c, !.panic = c.panic]
        ELSE Then(\E w \in 1..Len(c.writes) : c.writes[w][1] \in e.watchpoints,
                  LAMBDA watch :
             [e EXCEPT !.cpu = c,
                       !.val = <<c.val, watch>>,
                       !.stepped = @ + c.val,
                       !.log = Append(@, [k |-> "step", mode |-> e.mode,
                                          pc |-> c.regs.pc, cycles |-> c.val,
                                          watch |-> watch])]))

\* Emulator::step
emulator_step(e) ==
    LET Then(v, K(_)) == K(v)
    IN  Then(nes_step(e), LAMBDA t :
        IF ~Running(t) THEN t
        ELSE [t EXCEPT !.emulated_cycles = @ + t.val[1]])

\* Disassembler::disassemble_next leaves d.pc behind the instruction at pc:
\* the number of bytes of the instruction whose opcode is o
InsnLength(o) ==
    LET Then(v, K(_)) == K(v)
    IN  Then(MatchArm(o), LAMBDA i :
        IF i = 0 THEN 1
        ELSE CASE Arms[i][3] \in { "Absolute", "AbsoluteIndexed" } -> 3
               [] Arms[i][3] \in { "Immediate", "ZeroPage", "ZeroPageIndexed",
                                   "IndexedIndirect", "IndirectIndexed" } -> 2
               [] Arms[i][2] \in { "jmp", "jmpi", "jsr" } -> 3
               [] Arms[i][2] \in { "bmi", "bpl", "bcc", "bcs", "beq", "bne",
                                   "bvs", "bvc", "nop_2_bytes", "xaa" } -> 2
               [] OTHER -> 1)

\* Emulator::disassemble_instruction: prints the instruction at the cursor;
\* val is the address behind it
disassemble_instruction(e) ==
    [e EXCEPT !.out = Append(@, "instruction"),
              !.val = (e.cursor + InsnLength(MemByte(e.cpu.mem, e.cursor))) % U16]

\* Emulator::print_cursor
print_cursor(e) == [e EXCEPT !.prompts = @ + 1]

\* Emulator::start_debugger
start_debugger(e) ==
    print_cursor(disassemble_instruction(
        [e EXCEPT !.mode = "Debugging", !.cursor = e.cpu.regs.pc,
                  !.log = Append(@, [k |-> "debugger", mode |-> e.mode,
                                     pc |-> e.cpu.regs.pc, cycles |-> 0,
                                     watch |-> FALSE])]))

\* Command::Step(count): the body of the for loop, n times
RECURSIVE debugger_steps(_, _)
debugger_steps(e, n) ==
    LET Then(v, K(_)) == K(v)
    IN  IF n = 0 \/ ~Running(e) THEN e
        ELSE Then(nes_step(e), LAMBDA t :
             IF ~Running(t) THEN t
             ELSE debugger_steps(
                      disassemble_instruction(
                          [t EXCEPT !.cursor = t.cpu.regs.pc]), n - 1))

\* Command::Disassemble(count): the body of the for loop, n times
RECURSIVE disassemble(_, _)
disassemble(e, n) ==
    LET Then(v, K(_)) == K(v)
    IN  IF n = 0 THEN e
        ELSE Then(disassemble_instruction(e), LAMBDA t :
             disassemble([t EXCEPT !.cursor = t.val], n - 1))

\* the `match command` of run_debugger_commands; val is TRUE when the arm
\* returns true from run_debugger_commands
run_command(e, command) ==
    LET c == command
        s == [e EXCEPT !.val = FALSE]
    IN  CASE c.k = "ShowRegs" -> [s EXCEPT !.out = Append(@, "registers")]
          [] c.k = "Step" -> [debugger_steps(s, c.n) EXCEPT !.val = FALSE]
          [] c.k = "Continue" -> [s EXCEPT !.mode = "Running"]
          [] c.k = "Goto" -> [s EXCEPT !.cursor = c.a]
          [] c.k = "ShowMem" ->
                 [s EXCEPT !.cursor = ((IF c.a # None THEN c.a[1] ELSE @)
                                          + 16 * 16) % U16,
                           !.out = Append(@, "memory")]
          [] c.k = "ShowStack" -> [s EXCEPT !.out = Append(@, "stack")]
          [] c.k = "Disassemble" -> [disassemble(s, c.n) EXCEPT !.val = FALSE]
          [] c.k = "Label" -> [s EXCEPT !.out = Append(@, "labels")]
          [] c.k = "AddLabel" -> [s EXCEPT !.labels = (c.l :> c.a) @@ @]
          [] c.k = "RemoveLabel" ->
                 IF c.l \in DOMAIN s.labels
                 THEN [s EXCEPT !.labels =
                           [l \in (DOMAIN s.labels) \ {c.l} |-> s.labels[l]]]
                 ELSE [s EXCEPT !.out = Append(@, "Label doesn't exist")]
          [] c.k = "Breakpoint" -> [s EXCEPT !.out = Append(@, "breakpoints")]
          [] c.k = "AddBreakpoint" -> [s EXCEPT !.breakpoints = @ \cup {c.a}]
          [] c.k = "RemoveBreakpoint" ->
                 IF c.a \in s.breakpoints
                 THEN [s EXCEPT !.breakpoints = @ \ {c.a}]
                 ELSE [s EXCEPT !.out = Append(@, "Breakpoint doesn't exist")]
          [] c.k = "Watchpoint" -> [s EXCEPT !.out = Append(@, "watchpoints")]
          [] c.k = "AddWatchpoint" -> [s EXCEPT !.watchpoints = @ \cup {c.a}]
          [] c.k = "RemoveWatchpoint" ->
                 IF c.a \in s.watchpoints
                 THEN [s EXCEPT !.watchpoints = @ \ {c.a}]
                 ELSE [s EXCEPT !.out = Append(@, "Watchpoint doesn't exist")]
          [] c.k = "Exit" -> [s EXCEPT !.val = TRUE]
          [] c.k = "Repeat" -> [s EXCEPT !.panic = "unreachable"]

\* Emulator::run_debugger_commands; val is the value returned
RECURSIVE run_debugger_commands(_)
run_debugger_commands(e) ==
    LET Then(v, K(_)) == K(v)
    IN  IF ~Running(e) THEN e
        ELSE IF e.stdin = <<>> THEN [e EXCEPT !.val = FALSE]
        ELSE Then(parse(Head(e.stdin)), LAMBDA p :
             Then(CASE p.ok /\ p.v.k = "Repeat" /\ e.last_command # None ->
                           [ok |-> TRUE, v |-> e.last_command[1]]
                    [] p.ok /\ p.v.k = "Repeat" /\ e.last_command = None ->
                           [ok |-> FALSE, v |-> "No last command"]
                    [] OTHER -> p,
                  LAMBDA command :
             Then(IF command.ok
                  THEN Then(run_command([e EXCEPT !.stdin = Tail(@)], command.v),
                            LAMBDA t :
                            IF ~Running(t) \/ t.val = TRUE THEN t
                            ELSE [t EXCEPT !.last_command = Some(command.v)])
                  ELSE [e EXCEPT !.stdin = Tail(@), !.val = FALSE],
                  LAMBDA u :
             IF ~Running(u) \/ u.val = TRUE THEN u
             ELSE run_debugger_commands(
                      IF u.mode = "Debugging" THEN print_cursor(u) ELSE u))))

\* the loop of run with the breakpoint test ahead of the step
RECURSIVE run_steps_test_first(_, _)
run_steps_test_first(e, target_cycles) ==
    LET Then(v, K(_)) == K(v)
    IN  IF ~Running(e) THEN e
        ELSE IF ~(e.emulated_cycles < target_cycles) THEN [e EXCEPT !.val = FALSE]
        ELSE IF Cardinality(e.breakpoints) # 0 /\ e.cpu.regs.pc \in e.breakpoints
        THEN [e EXCEPT !.val = TRUE]
        ELSE Then(emulator_step(e), LAMBDA t :
             IF ~Running(t) THEN t
             ELSE IF t.val[2] THEN [t EXCEPT !.val = TRUE]
                  ELSE run_steps_test_first(t, target_cycles))

\* the loop of run without `&& !start_debugger` in its condition: it runs on
\* to the target after a step has set start_debugger (kept in val)
RECURSIVE run_steps_to_target(_, _)
run_steps_to_target(e, target_cycles) ==
    LET Then(v, K(_)) == K(v)
    IN  IF ~Running(e) THEN e
        ELSE IF ~(e.emulated_cycles < target_cycles)
        THEN [e EXCEPT !.val = (e.val = TRUE)]
        ELSE Then(emulator_step(e), LAMBDA t :
             IF ~Running(t) THEN t
             ELSE run_steps_to_target(
                      [t EXCEPT !.val = \/ e.val = TRUE
                                        \/ t.val[2]
                                        \/ /\ Cardinality(t.breakpoints) # 0
                                           /\ t.cpu.regs.pc \in t.breakpoints],
                      target_cycles))

\* the `while self.emulated_cycles < target_cycles && !start_debugger` loop
\* of run; val is start_debugger
RECURSIVE run_steps(_, _)
run_steps(e, target_cycles) ==
    LET Then(v, K(_)) == K(v)
    IN  IF ~Running(e) THEN e
        ELSE IF ~(e.emulated_cycles < target_cycles) THEN [e EXCEPT !.val = FALSE]
        ELSE Then(emulator_step(e), LAMBDA t :
             IF ~Running(t) THEN t
             ELSE IF t.val[2] \/ (Cardinality(t.breakpoints) # 0
                                  /\ t.cpu.regs.pc \in t.breakpoints)
                  THEN [t EXCEPT !.val = TRUE]
                  ELSE run_steps(t, target_cycles))

\* one turn of the `while` loop of Emulator::run with the window open:
\* target_cycles is what the clock allows, f12 whether F12 was pressed;
\* val is TRUE when the turn breaks out of the loop
run_turn(e, target_cycles, f12) ==
    LET Then(v, K(_)) == K(v)
    IN  Then(IF e.mode = "Running"
             THEN Then(run_steps(e, target_cycles), LAMBDA t :
                       IF ~Running(t) THEN t
                       ELSE IF t.val
                            THEN [start_debugger(t) EXCEPT !.val = FALSE]
                            ELSE t)
             ELSE run_debugger_commands(e),
             LAMBDA u :
        IF ~Running(u) \/ u.val = TRUE THEN u
        ELSE IF f12 THEN [start_debugger(u) EXCEPT !.val = FALSE] ELSE u)

\* Cartridge::load on the file's bytes, after File::open
load_rom(file) ==
    CASE file = "missing" -> [ok |-> FALSE, v |-> "Io"]
      [] file = "not a ROM" -> [ok |-> FALSE, v |-> "InvalidFormat"]
      [] file = "mapper 2" -> [ok |-> FALSE, v |-> "UnsupportedMapper"]
      [] file = "mapper 0" -> [ok |-> TRUE, v |-> 0]
      [] file = "mapper 1" -> [ok |-> TRUE, v |-> 1]
      [] file = "mapper 3" -> [ok |-> TRUE, v |-> 3]

---------------------------------------------------------------------------
(* Audio: the AudioSink of the core (sadnes-core/src/sink.rs) and the cpal *)
(* driver (rustednes-cli/src/cpal_driver.rs).  A u64 that can be large is  *)
(* written in base 1000, most significant digit first, so that a product   *)
(* with 1_000_000_000 and its reduction modulo 2^64 are computed as the    *)
(* machine computes them.                                                  *)

\* a < b, for two numbers of the same number of digits
DigitsLess(a, b) ==
    \E i \in 1..Len(a) : a[i] < b[i] /\ \A j \in 1..(i - 1) : a[j] = b[j]

\* a - b for a >= b: digit i borrows when the digits after it are less in a
DigitsSub(a, b) ==
    [i \in 1..Len(a) |->
        (a[i] - b[i]
         - (IF DigitsLess(SubSeq(a, i + 1, Len(a)), SubSeq(b, i + 1, Len(b)))
            THEN 1 ELSE 0)) % 1000]

\* a / d (integer division) for 0 < d < 2^31 / 1000
DigitsDiv(a, d) ==
    LET rem[i \in 0..Len(a)] ==
            IF i = 0 THEN 0 ELSE (rem[i - 1] * 1000 + a[i]) % d
    IN  [i \in 1..Len(a) |-> (rem[i - 1] * 1000 + a[i]) \div d]

\* 2^64 = 18,446,744,073,709,551,616 in ten digits
Pow64 == <<0, 0, 0, 18, 446, 744, 73, 709, 551, 616>>

\* p mod 2^64
RECURSIVE Wrap64(_)
Wrap64(p) == IF DigitsLess(p, Pow64) THEN p ELSE Wrap64(DigitsSub(p, Pow64))

\* AudioSink::append
append(s, frame) ==
    IF s.buffer_pos >= Len(s.buffer)
    THEN [s EXCEPT !.panic = "index out of bounds"]
    ELSE [s EXCEPT !.buffer[s.buffer_pos + 1] = frame,
                   !.buffer_pos = @ + 1]

\* SampleBuffer::new.  samples_read counts every call of next(), about
\* 44,100 a second; it is kept as [hi, lo], the number hi * 10^9 + lo.
\* written and returned are history: the samples pushed so far and the
\* samples next() has returned so far.
SampleBuffer_new ==
    [samples |-> <<>>, samples_read |-> [hi |-> 0, lo |-> 0],
     samples_written |-> 0, written |-> <<>>, returned |-> <<>>,
     panic |-> "none", val |-> None]

\* SampleBuffer::push
push(sb, value) ==
    [sb EXCEPT !.samples = Append(@, value), !.samples_written = @ + 1,
               !.written = Append(@, value)]

\* SampleBuffer::next with pop_back() in place of pop_front()
next_pop_back(sb) ==
    LET r == sb.samples_read
        t == [sb EXCEPT !.samples_read =
                  IF r.lo + 1 = 1000000000 THEN [hi |-> r.hi + 1, lo |-> 0]
                  ELSE [r EXCEPT !.lo = @ + 1]]
        n == Len(sb.samples)
    IN  IF sb.samples = <<>> THEN [t EXCEPT !.val = None]
        ELSE [t EXCEPT !.samples = SubSeq(@, 1, n - 1),
                       !.val = Some(sb.samples[n]),
                       !.returned = Append(@, sb.samples[n])]

\* <SampleBuffer as Iterator>::next; val is the Option returned
next(sb) ==
    LET r == sb.samples_read
        t == [sb EXCEPT !.samples_read =
                  IF r.lo + 1 = 1000000000 THEN [hi |-> r.hi + 1, lo |-> 0]
                  ELSE [r EXCEPT !.lo = @ + 1]]
    IN  IF sb.samples = <<>> THEN [t EXCEPT !.val = None]
        ELSE [t EXCEPT !.samples = Tail(@), !.val = Some(Head(sb.samples)),
                       !.returned = Append(@, Head(sb.samples))]

\* CpalDriverTimeSource::time_ns; val is the u64 returned, in ten digits
time_ns(sb, sample_rate) ==
    LET r == sb.samples_read
        product == << r.hi \div 1000000000, (r.hi \div 1000000) % 1000,
                      (r.hi \div 1000) % 1000, r.hi % 1000,
                      r.lo \div 1000000, (r.lo \div 1000) % 1000, r.lo % 1000,
                      0, 0, 0 >>
    IN  IF ~DigitsLess(product, Pow64) /\ overflow_checks
        THEN [sb EXCEPT !.panic = "overflow"]
        ELSE [sb EXCEPT !.val = DigitsDiv(Wrap64(product), sample_rate)]

\* the greatest common divisor, as the gcd of LinearResampler::new
RECURSIVE gcd(_, _)
gcd(a, b) == IF b = 0 THEN a ELSE gcd(b, a % b)

\* LinearResampler::new; samples are small integers in place of f32
LinearResampler_new(from_sample_rate, to_sample_rate) ==
    [from_sample_rate |-> from_sample_rate \div gcd(from_sample_rate, to_sample_rate),
     to_sample_rate |-> to_sample_rate \div gcd(from_sample_rate, to_sample_rate),
     current_from_sample |-> 0, next_from_sample |-> 0, from_fract_pos |-> 0]

\* the loop of LinearResampler::next as an `if`: one subtraction and one
\* read at most
resampler_advance_once(d) ==
    LET Then(v, K(_)) == K(v)
    IN  IF ~(d.r.from_fract_pos > d.r.to_sample_rate) THEN d
        ELSE Then(next(d.sb), LAMBDA t :
                 [r |-> [d.r EXCEPT
                             !.from_fract_pos = @ - d.r.to_sample_rate,
                             !.current_from_sample = d.r.next_from_sample,
                             !.next_from_sample =
                                 IF t.val = None THEN d.r.next_from_sample
                                 ELSE t.val[1]],
                  sb |-> t])

\* the while loop of LinearResampler::next, on d = [r, sb]: the resampler
\* and the sample buffer it reads
RECURSIVE resampler_advance(_)
resampler_advance(d) ==
    LET Then(v, K(_)) == K(v)
    IN  IF ~(d.r.from_fract_pos > d.r.to_sample_rate) THEN d
        ELSE Then(next(d.sb), LAMBDA t :
             resampler_advance(
                 [r |-> [d.r EXCEPT
                             !.from_fract_pos = @ - d.r.to_sample_rate,
                             !.current_from_sample = d.r.next_from_sample,
                             !.next_from_sample =
                                 IF t.val = None THEN d.r.next_from_sample
                                 ELSE t.val[1]],
                  sb |-> t]))

\* LinearResampler::next; sb.val is the value returned: the two samples
\* and the two weights interpolate() mixes them with (denom - num, which
\* is 2^32 more than written here when it wraps, and num)
resampler_next(d) ==
    LET r == d.r
    IN  IF r.to_sample_rate - r.from_fract_pos < 0 /\ overflow_checks
        THEN [d EXCEPT !.sb.panic = "overflow"]
        ELSE [resampler_advance(
                 [d EXCEPT !.r.from_fract_pos = @ + r.from_sample_rate])
              EXCEPT !.sb.val =
                 <<r.current_from_sample, r.next_from_sample,
                   r.to_sample_rate - r.from_fract_pos, r.from_fract_pos>>]

\* the rate main() asks CpalDriver::new for
DesiredRate == 44100

\* u32::cmp
cmp(x, y) == IF x < y THEN "Less" ELSE IF x = y THEN "Equal" ELSE "Greater"

\* Ordering::reverse
reverse(o) ==
    CASE o = "Less" -> "Greater" [] o = "Greater" -> "Less" [] OTHER -> o

\* the closure compare_sample_rates of CpalDriver::new
compare_sample_rates(desired_sample_rate, x, y) ==
    IF x < desired_sample_rate /\ y > desired_sample_rate THEN "Greater"
    ELSE IF x > desired_sample_rate /\ y < desired_sample_rate THEN "Less"
    ELSE IF x < desired_sample_rate /\ y < desired_sample_rate
    THEN reverse(cmp(x, y))
    ELSE cmp(x, y)

\* Iterator::min_by with that closure on the formats' min_sample_rate: the
\* fold keeps `best` unless the comparison with the next format is Greater
RECURSIVE min_by(_, _, _)
min_by(desired_sample_rate, best, rest) ==
    IF rest = <<>> THEN best
    ELSE min_by(desired_sample_rate,
                IF compare_sample_rates(desired_sample_rate,
                                        best.min_sample_rate,
                                        Head(rest).min_sample_rate) = "Greater"
                THEN Head(rest) ELSE best,
                Tail(rest))

\* the format CpalDriver::new chooses among the device's `formats`, each
\* [channels, min_sample_rate]
select_format(desired_sample_rate, formats) ==
    LET two == SelectSeq(formats, LAMBDA format : format.channels = 2)
    IN  IF two = <<>>
        THEN [panic |-> "Failed to find format with 2 channels",
              val |-> [channels |-> 2, min_sample_rate |-> 0]]
        ELSE [panic |-> "none",
              val |-> min_by(desired_sample_rate, Head(two), Tail(two))]

\* CpalDriver::new on a device with the output formats `formats`; a panic
\* is left in sample_buffer.panic
CpalDriver_new(desired_sample_rate, formats) ==
    LET Then(v, K(_)) == K(v)
    IN  Then(select_format(desired_sample_rate, formats), LAMBDA format :
        [sample_buffer |-> [SampleBuffer_new EXCEPT !.panic = format.panic],
         sample_rate |-> format.val.min_sample_rate,
         resampler |-> LinearResampler_new(desired_sample_rate,
                                           format.val.min_sample_rate)])

\* the closure CpalDriver::new gives to event_loop.run, called with an
\* output buffer of `frames` frames: one resampler.next() for each
RECURSIVE callback(_, _)
callback(d, frames) ==
    LET Then(v, K(_)) == K(v)
    IN  IF frames = 0 \/ d.sb.panic # "none" THEN d
        ELSE Then(resampler_next(d), LAMBDA t : callback(t, frames - 1))

---------------------------------------------------------------------------
(* The state machine                                                       *)

Cpu == [regs |-> regs, cycles |-> cycles, mem |-> mem, interrupt |-> interrupt,
        panic |-> "none", val |-> 0, writes |-> <<>>]

Snapshot(s, requested) ==
    [regs |-> s.regs, cycles |-> s.cycles, mem |-> s.mem,
     interrupt |-> s.interrupt, nmi_requested |-> requested]

NoMid == [regs |-> [pc |-> 0, a |-> 0, x |-> 0, y |-> 0, sp |-> 0, status |-> 0],
          cycles |-> 0, interrupt |-> "None", panic |-> "none"]

\* the objects outside the Cpu, as constructed; the Cpu's operations leave
\* them alone
hostVars == <<mapper3, vram, emulator, cli, sink, driver, clock, arg>>

MapperIdle ==
    /\ mapper3 = Mapper3_new([mapper |-> 3, prg_rom |-> \h8000, chr |-> \h2000,
                              mirroring |-> "Horizontal"])
    /\ vram = <<>>

CliIdle ==
    /\ emulator = Emulator_new
    /\ cli = [stage |-> "main", exit_code |-> -1, stdin |-> <<>>,
              prompts |-> 0, out |-> <<>>, log |-> <<>>, stepped |-> 0]

AudioIdle ==
    /\ sink = [buffer |-> <<>>, buffer_pos |-> 0]
    /\ driver = CpalDriver_new(DesiredRate,
                               <<[channels |-> 2,
                                  min_sample_rate |-> DesiredRate]>>)
    /\ clock = None

HostIdle == MapperIdle /\ CliIdle /\ AudioIdle /\ arg = <<>>

Commit(s) ==
    /\ regs' = s.regs
    /\ cycles' = s.cycles
    /\ mem' = s.mem
    /\ interrupt' = s.interrupt
    /\ panicked' = s.panic
    /\ writes' = s.writes
    /\ pre' = Snapshot(Cpu, nmi_requested)
    /\ UNCHANGED <<overflow_checks, hostVars>>

Init ==
    /\ overflow_checks \in BOOLEAN
    /\ \E prog \in Programs :
         LET c == new(Image(prog))
             s == reset(c)
         IN  /\ regs = s.regs
             /\ cycles = s.cycles
             /\ mem = s.mem
             /\ interrupt = s.interrupt
             /\ pre = Snapshot(c, FALSE)
    /\ panicked = "none"
    /\ call = "new"
    /\ ret = -1
    /\ op = -1
    /\ mid = NoMid
    /\ writes = <<>>
    /\ nmi_requested = FALSE
    /\ HostIdle

\* step(), called while the cycle counter is below `limit`
StepWithin(limit) ==
    LET Then(v, K(_)) == K(v)
    IN  /\ panicked = "none"
        /\ cycles < limit
        /\ Then(step(Cpu), LAMBDA s :
                /\ Commit(s)
                /\ ret' = IF Running(s) THEN s.val ELSE -1)
        /\ Then(handle_interrupts(Cpu), LAMBDA h :
                mid' = [regs |-> h.regs, cycles |-> h.cycles,
                        interrupt |-> h.interrupt, panic |-> h.panic])
        /\ Then(step_fetch(Cpu), LAMBDA f :
                op' = IF Running(f) THEN f.val ELSE -1)
        /\ call' = "step"
        /\ nmi_requested' = FALSE

Step == StepWithin(MaxCycles)

Reset ==
    /\ panicked = "none"
    /\ Commit(reset(Cpu))
    /\ call' = "reset"
    /\ nmi_requested' = FALSE
    /\ UNCHANGED <<ret, op, mid>>

TriggerNmi ==
    /\ panicked = "none"
    /\ Commit(trigger_nmi(Cpu))
    /\ call' = "trigger_nmi"
    /\ nmi_requested' = TRUE
    /\ UNCHANGED <<ret, op, mid>>

TriggerIrq ==
    /\ panicked = "none"
    /\ Commit(trigger_irq(Cpu))
    /\ call' = "trigger_irq"
    /\ UNCHANGED <<ret, op, mid, nmi_requested>>

Next == Step \/ Reset \/ TriggerNmi \/ TriggerIrq

Spec == Init /\ [][Next]_vars

---------------------------------------------------------------------------
(* Single instructions on a Cpu in the middle of a run: the registers are  *)
(* as earlier instructions left them, the program counter is at the        *)
(* instruction, and the cycle counter is counted from this point.  step()  *)
(* is the only operation called.                                           *)

\* page one holds a different byte in each cell
StackPage == [a \in { \h0100 + i : i \in 0..255 } |-> (a + \h12) % 256]

\* a subroutine that returns at once
Sub == \h8100

\* the cells an indirect jump reads
Data == [a \in { \h0200, \h0201, \h02FE, \h02FF, \h0300 } |->
            CASE a = \h0200 -> \h12
              [] a = \h0201 -> \h9A
              [] a = \h02FE -> \h78
              [] a = \h02FF -> \h34
              [] a = \h0300 -> \h56]

AluOperands == { \h00, \h01, \h0F, \h3F, \h40, \h50, \h7F, \h80, \hAF, \hB0,
                 \hD0, \hFE, \hFF }

BranchOffsets == { \h00, \h02, \h7F, \h80, \hFD, \hFF }

\* ROL and ROR: accumulator, zero page, zero page X, absolute, absolute X
RotateOps == { \h2A, \h26, \h36, \h2E, \h3E, \h6A, \h66, \h76, \h6E, \h7E }

\* ADC and SBC immediate on every accumulator with both carries and both
\* decimal flags; the eight branches on every N, V, Z, C at three addresses;
\* the stack instructions and BRK on every stack pointer; JMP (indirect);
\* the rotates of a value in A and in cell 0x10 with both carries
InsnCases ==
    { [at |-> Origin, prog |-> <<o, m>>, a |-> a, x |-> 0, y |-> 0,
       sp |-> \hFD, status |-> \h24 + f, cells |-> <<>>] :
         o \in { \h69, \hE9 }, a \in 0..255, m \in AluOperands,
         f \in { 0, CARRY, DECIMAL_MODE, CARRY + DECIMAL_MODE } }
    \cup
    { [at |-> at, prog |-> <<o, d>>, a |-> 0, x |-> 0, y |-> 0,
       sp |-> \hFD, status |-> \h24 + n + v + z + c, cells |-> <<>>] :
         at \in { Origin, \h80FD, \h7FF0 },
         o \in { \h10, \h30, \h50, \h70, \h90, \hB0, \hD0, \hF0 },
         d \in BranchOffsets,
         n \in { 0, NEGATIVE_RESULT }, v \in { 0, OVERFLOW },
         z \in { 0, ZERO_RESULT }, c \in { 0, CARRY } }
    \cup
    { [at |-> Origin, prog |-> <<o, Sub % 256, Sub \div 256>>, a |-> \hA5,
       x |-> 0, y |-> 0, sp |-> sp, status |-> st,
       cells |-> (Sub :> \h60) @@ StackPage] :
         o \in { \h00, \h08, \h20, \h28, \h40, \h48, \h60, \h68 },
         sp \in 0..255, st \in { \h24, \hE3 } }
    \cup
    { [at |-> Origin, prog |-> <<\h6C, p % 256, p \div 256>>, a |-> 0,
       x |-> 0, y |-> 0, sp |-> \hFD, status |-> \h24, cells |-> Data] :
         p \in { \h0200, \h02FE, \h02FF, \h00FF } }
    \cup
    { [at |-> Origin, prog |-> <<o, \h10, \h00>>, a |-> v, x |-> 0, y |-> 0,
       sp |-> \hFD, status |-> \h24 + c, cells |-> (\h10 :> v)] :
         o \in RotateOps, v \in AluOperands, c \in { 0, CARRY } }

\* the memory of a case: its cells over the vectors and handlers, and its
\* program at its address
InsnImage(c) ==
    LET under == c.cells @@ Image(<<>>)
        code == { c.at + i - 1 : i \in 1..Len(c.prog) }
    IN  [a \in (DOMAIN under) \cup code |->
            IF a \in code THEN c.prog[a - c.at + 1] ELSE under[a]]

\* the step guard of the single-instruction runs
MaxInsnCycles == 7

InitInsn ==
    /\ overflow_checks \in BOOLEAN
    /\ \E c \in InsnCases :
         /\ regs = [pc |-> c.at, a |-> c.a, x |-> c.x, y |-> c.y,
                    sp |-> c.sp, status |-> c.status]
         /\ mem = InsnImage(c)
    /\ cycles = 0
    /\ interrupt = "None"
    /\ pre = Snapshot(Cpu, FALSE)
    /\ panicked = "none"
    /\ call = "none"
    /\ ret = -1
    /\ op = -1
    /\ mid = NoMid
    /\ writes = <<>>
    /\ nmi_requested = FALSE
    /\ HostIdle

StepInsn == StepWithin(MaxInsnCycles)

SpecInsn == InitInsn /\ [][StepInsn]_vars

---------------------------------------------------------------------------
(* Mapper 3 on its own: a Mapper3 made from a cartridge, and the calls the *)
(* bus and the PPU make on it, in any order.  create_mapper is called on   *)
(* the same ROM under every mapper number.                                 *)

CartridgeOf(id) ==
    { [mapper |-> id, prg_rom |-> p, chr |-> c, mirroring |-> m] :
        p \in { \h4000, \h8000 }, c \in { \h2000, \h4000, \h8000 },
        m \in { "Horizontal", "Vertical" } }

MapperIds == 0..4

PrgAddresses == { \h4020, \h7FFF, \h8000, \hBFFF, \hC000, \hFFFF }

PpuAddresses == { \h0000, \h1FFF, \h2000, \h2400, \h2805 }

BankValues == { 0, 1, 2, 3, 5, 255 }

Mapper == [cartridge |-> mapper3.cartridge, chr_bank |-> mapper3.chr_bank,
           vram |-> vram, panic |-> "none", val |-> -1]

CommitMapper(s, name, args) ==
    /\ mapper3' = [cartridge |-> s.cartridge, chr_bank |-> s.chr_bank]
    /\ vram' = s.vram
    /\ panicked' = s.panic
    /\ ret' = IF s.panic = "none" THEN s.val ELSE -1
    /\ call' = name
    /\ arg' = args
    /\ pre' = [mapper3 |-> mapper3, vram |-> vram]
    /\ UNCHANGED <<overflow_checks, cpuVars, cliVars, audioVars>>

\* a Cpu on an empty memory that nothing calls
CpuIdle ==
    /\ regs = new(<<>>).regs
    /\ cycles = new(<<>>).cycles
    /\ mem = <<>>
    /\ interrupt = new(<<>>).interrupt
    /\ op = -1
    /\ mid = NoMid
    /\ writes = <<>>
    /\ nmi_requested = FALSE

InitMapper ==
    /\ overflow_checks \in BOOLEAN
    /\ CpuIdle
    /\ panicked = "none"
    /\ call = "new"
    /\ ret = -1
    /\ arg = <<>>
    /\ \E c \in CartridgeOf(3) :
         /\ mapper3 = Mapper3_new(c)
         /\ pre = [mapper3 |-> Mapper3_new(c), vram |-> <<>>]
    /\ vram = <<>>
    /\ CliIdle
    /\ AudioIdle

PrgRead ==
    /\ panicked = "none"
    /\ \E a \in PrgAddresses :
         CommitMapper(prg_read_byte(Mapper, a), "prg_read_byte", <<a>>)

PrgWrite ==
    /\ panicked = "none"
    /\ \E a \in PrgAddresses, v \in BankValues :
         CommitMapper(prg_write_byte(Mapper, a, v), "prg_write_byte", <<a, v>>)

PpuRead ==
    /\ panicked = "none"
    /\ \E a \in PpuAddresses :
         CommitMapper(ppu_read_byte(Mapper, a), "ppu_read_byte", <<a>>)

PpuWrite ==
    /\ panicked = "none"
    /\ \E a \in PpuAddresses, v \in { \h11, \h22 } :
         CommitMapper(ppu_write_byte(Mapper, a, v), "ppu_write_byte", <<a, v>>)

CreateMapper ==
    /\ panicked = "none"
    /\ \E id \in MapperIds :
         LET c == [mapper3.cartridge EXCEPT !.mapper = id]
             r == create_mapper(c)
         IN  /\ panicked' = r.panic
             /\ ret' = r.val
             /\ call' = "create_mapper"
             /\ arg' = <<c>>
             /\ pre' = [mapper3 |-> mapper3, vram |-> vram]
             /\ UNCHANGED <<overflow_checks, cpuVars, mapperVars, cliVars,
                            audioVars>>

NextMapper == PrgRead \/ PrgWrite \/ PpuRead \/ PpuWrite \/ CreateMapper

SpecMapper == InitMapper /\ [][NextMapper]_vars

---------------------------------------------------------------------------
(* The command-line program: main() loads the ROM and runs the emulator;   *)
(* each turn of run's loop steps the Cpu or serves the debugger; the stdin *)
(* thread answers a prompt with a line the user types.                     *)

\* NOP; NOP; STA $0200; JMP $8000
CliProgram == <<\hEA, \hEA, \h8D, \h00, \h02, \h4C, \h00, \h80>>

RomFiles == { "missing", "not a ROM", "mapper 2", "mapper 0", "mapper 1",
              "mapper 3" }

TypedLines == { "", "s", "c", "ab 8002", "aw 0200", "q", "bogus" }

\* the turns of run's loop stop when the Cpu has run this many cycles
MaxCliCycles == 9

\* prompts and lines in the two channels
MaxQueued == 2

\* how far the clock may be ahead of the emulated cycles, in cycles
ClockAhead == { 0, 5 }

Emu == [cpu |-> Cpu, watchpoints |-> emulator.watchpoints,
        mode |-> emulator.mode, breakpoints |-> emulator.breakpoints,
        labels |-> emulator.labels, cursor |-> emulator.cursor,
        last_command |-> emulator.last_command,
        emulated_cycles |-> emulator.emulated_cycles,
        stdin |-> cli.stdin, prompts |-> cli.prompts, out |-> <<>>,
        log |-> <<>>, stepped |-> cli.stepped,
        panic |-> "none", val |-> FALSE]

\* main(), up to the loop of Emulator::run; val is TRUE when main has
\* returned.  Emulator::new makes the Nes, which makes the mapper of the
\* cartridge and the Cpu.
main(e, file, audio, debug) ==
    LET Then(v, K(_)) == K(v)
    IN  Then(load_rom(file), LAMBDA r :
        IF ~r.ok THEN [e EXCEPT !.out = Append(@, "Error"), !.val = TRUE]
        ELSE Then([e EXCEPT !.out = Append(@, "rom")], LAMBDA t :
             IF audio = "no device"
             THEN [t EXCEPT !.panic = "Failed to get default output device"]
             ELSE IF create_mapper([mapper |-> r.v]).panic # "none"
             THEN [t EXCEPT !.panic = create_mapper([mapper |-> r.v]).panic]
             ELSE Then([t EXCEPT !.cpu = reset(new(Image(CliProgram))),
                                 !.val = FALSE], LAMBDA u :
                  IF debug THEN [start_debugger(u) EXCEPT !.val = FALSE]
                  ELSE u)))

\* the state a call leaves; a panic ends the process with exit code 101, a
\* return from main with 0
CommitCli(e, name, args) ==
    /\ regs' = e.cpu.regs
    /\ cycles' = e.cpu.cycles
    /\ mem' = e.cpu.mem
    /\ interrupt' = e.cpu.interrupt
    /\ writes' = e.cpu.writes
    /\ emulator' = [mode |-> e.mode, breakpoints |-> e.breakpoints,
                    labels |-> e.labels, cursor |-> e.cursor,
                    last_command |-> e.last_command,
                    emulated_cycles |-> e.emulated_cycles,
                    watchpoints |-> e.watchpoints]
    /\ cli' = [stage |-> IF ~Running(e) \/ e.val THEN "exited" ELSE "run",
               exit_code |-> IF ~Running(e) THEN 101
                             ELSE IF e.val THEN 0 ELSE -1,
               stdin |-> e.stdin, prompts |-> e.prompts, out |-> e.out,
               log |-> e.log, stepped |-> e.stepped]
    /\ panicked' = e.panic
    /\ ret' = IF Running(e) THEN e.val ELSE -1
    /\ call' = name
    /\ arg' = args
    /\ pre' = [emulator |-> emulator, cli |-> cli, regs |-> regs,
               cycles |-> cycles]
    /\ UNCHANGED <<overflow_checks, op, mid, nmi_requested, mapperVars,
                   audioVars>>

InitCli ==
    /\ overflow_checks \in BOOLEAN
    /\ CpuIdle
    /\ HostIdle
    /\ panicked = "none"
    /\ call = "none"
    /\ ret = -1
    /\ pre = [emulator |-> Emulator_new, cli |-> cli, regs |-> regs,
              cycles |-> cycles]

Main ==
    /\ cli.stage = "main"
    /\ \E file \in RomFiles, audio \in { "off", "device", "no device" },
          debug \in BOOLEAN :
         CommitCli(main(Emu, file, audio, debug), "main", <<file, audio, debug>>)

\* a turn of the loop of Emulator::run while the window is open
RunTurn ==
    /\ cli.stage = "run"
    /\ cycles < MaxCliCycles
    /\ \E ahead \in ClockAhead, f12 \in BOOLEAN :
         /\ f12 => cli.prompts + Len(cli.stdin) < MaxQueued
         /\ CommitCli(run_turn(Emu, emulator.emulated_cycles + ahead, f12),
                      "run", <<ahead, f12>>)

\* the window is closed or Escape is down: the loop ends and main returns
WindowClosed ==
    /\ cli.stage = "run"
    /\ CommitCli([Emu EXCEPT !.val = TRUE], "quit", <<>>)

\* the stdin thread: takes a prompt, reads a line and sends it
StdinThread ==
    /\ cli.stage = "run"
    /\ cli.prompts > 0
    /\ \E line \in TypedLines :
         /\ cli' = [cli EXCEPT !.prompts = @ - 1, !.stdin = Append(@, line),
                               !.out = <<>>, !.log = <<>>]
         /\ call' = "read_line"
         /\ arg' = <<line>>
    /\ pre' = [emulator |-> emulator, cli |-> cli, regs |-> regs,
               cycles |-> cycles]
    /\ UNCHANGED <<overflow_checks, cpuVars, mapperVars, audioVars, emulator,
                   panicked, ret>>

NextCli == Main \/ RunTurn \/ WindowClosed \/ StdinThread

SpecCli == InitCli /\ [][NextCli]_vars

---------------------------------------------------------------------------
(* Audio on its own: the core appends frames to an AudioSink; the emulator *)
(* thread writes samples to the driver's buffer, the audio thread's        *)
(* callback reads them, and the time source is asked the time.  Each of    *)
(* the three takes the buffer's mutex for the whole call.  The driver is   *)
(* made on a device that reports a list of output formats.                 *)

\* the slots of the buffer the host hands to the core
SinkSlots == { 1, 2 }

DeviceRates == { 22050, 44100, 48000, 88200 }

\* the longest list of output formats a device of the model reports
MaxFormats == 3

\* device.supported_output_formats()
DeviceFormats ==
    UNION { [1..n -> [channels : { 1, 2 }, min_sample_rate : DeviceRates]] :
                n \in 0..MaxFormats }

Samples == { 1, 2 }

\* samples_read when the model starts: a driver just made, and one whose
\* callback has asked for 18,446,744,072 samples (4.8 days at 44,100 a
\* second), two short of the first for which 1_000_000_000 times the count
\* no longer fits a u64
ReadStarts == { [hi |-> 0, lo |-> 0], [hi |-> 18, lo |-> 446744072] }

\* the emulator thread stops after this many samples
MaxWrites == 3

\* the callback is not called once it has asked for this many samples
MaxReads == 3

\* the frames of one output buffer
MaxFrames == 2

Sink == [buffer |-> sink.buffer, buffer_pos |-> sink.buffer_pos,
         panic |-> "none"]

CommitAudio(s, d, name, args) ==
    /\ sink' = [buffer |-> s.buffer, buffer_pos |-> s.buffer_pos]
    /\ driver' = [d EXCEPT !.sample_buffer.panic = "none",
                           !.sample_buffer.val = None]
    /\ panicked' = IF s.panic # "none" THEN s.panic ELSE d.sample_buffer.panic
    /\ ret' = IF s.panic # "none" \/ d.sample_buffer.panic # "none" THEN -1
              ELSE d.sample_buffer.val
    /\ clock' = IF name = "time_ns" /\ d.sample_buffer.panic = "none"
                THEN Some(d.sample_buffer.val) ELSE clock
    /\ call' = name
    /\ arg' = args
    /\ pre' = [sink |-> sink, driver |-> driver, clock |-> clock]
    /\ UNCHANGED <<overflow_checks, cpuVars, mapperVars, cliVars>>

InitAudio ==
    /\ overflow_checks \in BOOLEAN
    /\ CpuIdle
    /\ MapperIdle
    /\ CliIdle
    /\ \E n \in SinkSlots :
         sink = [buffer |-> [i \in 1..n |-> <<0, 0>>], buffer_pos |-> 0]
    /\ \E formats \in DeviceFormats, start \in ReadStarts :
         /\ driver = [CpalDriver_new(DesiredRate, formats)
                      EXCEPT !.sample_buffer.samples_read = start,
                             !.sample_buffer.panic = "none"]
         /\ panicked = CpalDriver_new(DesiredRate, formats).sample_buffer.panic
         /\ arg = <<formats>>
    /\ clock = None
    /\ call = "new"
    /\ ret = -1
    /\ pre = [sink |-> sink, driver |-> driver, clock |-> None]

\* AudioSink::append, called by the core
AppendFrame ==
    /\ panicked = "none"
    /\ CommitAudio(append(Sink, <<1, -1>>),
                   driver, "append", <<<<1, -1>>>>)

\* CpalDriverBufferSink::write_sample, on the emulator thread
WriteSample ==
    /\ panicked = "none"
    /\ driver.sample_buffer.samples_written < MaxWrites
    /\ \E v \in Samples :
         CommitAudio(Sink,
                     [driver EXCEPT !.sample_buffer = push(@, v)],
                     "write_sample", <<v>>)

\* the output callback, on the audio thread
AudioCallback ==
    /\ panicked = "none"
    /\ \E start \in ReadStarts :
         /\ driver.sample_buffer.samples_read.hi = start.hi
         /\ driver.sample_buffer.samples_read.lo - start.lo \in 0..(MaxReads - 1)
    /\ \E frames \in 0..MaxFrames :
         LET d == callback([r |-> driver.resampler, sb |-> driver.sample_buffer],
                           frames)
         IN  CommitAudio(Sink,
                         [driver EXCEPT !.resampler = d.r, !.sample_buffer = d.sb],
                         "callback", <<frames>>)

\* CpalDriverTimeSource::time_ns, on the emulator thread
TimeNs ==
    /\ panicked = "none"
    /\ CommitAudio(Sink,
                   [driver EXCEPT !.sample_buffer =
                        time_ns(@, driver.sample_rate)],
                   "time_ns", <<>>)

NextAudio == AppendFrame \/ WriteSample \/ AudioCallback \/ TimeNs

SpecAudio == InitAudio /\ [][NextAudio]_vars

---------------------------------------------------------------------------
(* Observations shared by the properties                                   *)

\* the last operation was a step() that returned
Returned == call = "step" /\ ret # -1

\* the last operation was a step() whose handle_interrupts() returned
Handled == call = "step" /\ mid.panic = "none"

\* the three stack cells an interrupt service of the last step() writes
StackAt(k) == \h0100 + ((pre.regs.sp + 256 - k) % 256)

\* the last step() serviced an interrupt through `vector`: it pushed the
\* return address, took the 7 cycles and loaded PC from the vector
ServicedVia(vector) ==
    /\ Handled
    /\ Len(writes) >= 3
    /\ writes[1] = <<StackAt(0), pre.regs.pc \div 256>>
    /\ writes[2] = <<StackAt(1), pre.regs.pc % 256>>
    /\ writes[3][1] = StackAt(2)
    /\ mid.cycles = pre.cycles + 7
    /\ mid.regs.pc = MemWord(pre.mem, vector)

\* the last step() serviced no interrupt
ServicedNone == Handled /\ mid.cycles = pre.cycles /\ mid.regs = pre.regs

HasFlag(status, sf) == (status \div sf) % 2 = 1

---------------------------------------------------------------------------
(* C1: when an NMI is pending at the start of step(), the step (whenever   *)
(* its interrupt service returns) pushes PC high, PC low and P at          *)
(* 0x0100|SP downwards, leaves SP three lower (mod 256), sets I, loads PC  *)
(* from the word at 0xFFFA/0xFFFB, adds 7 cycles and clears the pending    *)
(* interrupt; the opcode it then fetches is the one at the new PC.         *)

C1_NmiService ==
    (Handled /\ pre.interrupt = "Nmi") =>
        /\ Len(writes) >= 3
        /\ writes[1] = <<StackAt(0), pre.regs.pc \div 256>>
        /\ writes[2] = <<StackAt(1), pre.regs.pc % 256>>
        /\ writes[3] = <<StackAt(2), pre.regs.status>>
        /\ mid.regs.sp = (pre.regs.sp + 256 - 3) % 256
        /\ HasFlag(mid.regs.status, 4)
        /\ mid.regs.pc = MemByte(pre.mem, 65530) + 256 * MemByte(pre.mem, 65531)
        /\ mid.cycles = pre.cycles + 7
        /\ mid.interrupt = "None"
        /\ op # -1 =>
             op = MemByte(MemPut(MemPut(MemPut(pre.mem, writes[1][1], writes[1][2]),
                                        writes[2][1], writes[2][2]),
                                 writes[3][1], writes[3][2]),
                          mid.regs.pc)

\* an NMI taken after the first instruction, with the handler's RTI fetched
C1_Witness ==
    /\ Returned /\ Handled /\ pre.interrupt = "Nmi"
    /\ pre.regs.pc # Origin
    /\ mid.regs.pc = NmiHandler
    /\ op = 64

\* an NMI taken with SP = 1, so that the three pushes wrap around page one
C1_WitnessWrap ==
    /\ Handled /\ pre.interrupt = "Nmi"
    /\ pre.regs.sp = 1
    /\ mid.regs.sp = 254

---------------------------------------------------------------------------
(* C2: a pending NMI is never lost: once trigger_nmi() has been called,    *)
(* the next step() services the NMI (PC loaded from 0xFFFA), whatever      *)
(* trigger_irq() calls came in between.                                    *)

C2_NmiNeverLost ==
    (Handled /\ pre.nmi_requested) =>
        /\ ServicedVia(NMI_VECTOR)
        /\ mid.regs.pc = MemByte(pre.mem, 65530) + 256 * MemByte(pre.mem, 65531)

---------------------------------------------------------------------------
(* C3: no step() services an IRQ (pushes PC and P and loads PC from        *)
(* 0xFFFE through the interrupt path) when the I flag is set at the start  *)
(* of that step.                                                           *)

C3_IrqGatedByI ==
    (Handled /\ HasFlag(pre.regs.status, 4)) => ~ServicedVia(IRQ_VECTOR)

---------------------------------------------------------------------------
(* C4: the status byte pushed by NMI or IRQ service has B (bit 4) = 0 and  *)
(* U (bit 5) = 1, whatever the live status register holds.                 *)

C4_PushedStatusBits ==
    (ServicedVia(NMI_VECTOR) \/ ServicedVia(IRQ_VECTOR)) =>
        /\ ~HasFlag(writes[3][2], 16)
        /\ HasFlag(writes[3][2], 32)

---------------------------------------------------------------------------
(* C5: after reset() (also the one Cpu::new runs), PC is the little-endian *)
(* word at 0xFFFC/0xFFFD, SP = 0xFD and P = I|U = 0x24; reset() leaves A,  *)
(* X, Y and the memory as they were.                                       *)

C5_Reset ==
    /\ call \in {"new", "reset"} =>
        /\ regs.pc = MemByte(mem, 65532) + 256 * MemByte(mem, 65533)
        /\ regs.sp = 253
        /\ regs.status = 36
    /\ call = "reset" =>
        /\ regs.a = pre.regs.a
        /\ regs.x = pre.regs.x
        /\ regs.y = pre.regs.y
        /\ mem = pre.mem
        /\ writes = <<>>

\* a reset after the program overwrote the high byte of the reset vector
C5_Witness ==
    /\ call = "reset"
    /\ regs.pc = 0
    /\ pre.regs.pc # 0
    /\ pre.cycles > 0

\* a reset that has SP, P and X to restore or to keep
C5_WitnessRegs ==
    /\ call = "reset"
    /\ pre.regs.sp # 253
    /\ pre.regs.status # 36
    /\ regs.x # 0

---------------------------------------------------------------------------
(* C6: after reset() the cycle counter is 0 and the pending interrupt is   *)
(* None.                                                                   *)

C6_ResetClearsTimeAndLatch ==
    call = "reset" => (cycles = 0 /\ interrupt = "None")

---------------------------------------------------------------------------
(* C7: step() never reaches the abort for an unimplemented opcode or for   *)
(* an invalid store address mode.                                          *)

C7_NeverAborts ==
    panicked \notin {"Unimplemented op code", "Invalid address mode for store"}

---------------------------------------------------------------------------
(* C8: the value a step() returns is the increase of the cycle counter     *)
(* during the call, and that increase is at least OPCODE_CYCLES[opcode],   *)
(* plus 7 when the step serviced an interrupt.                             *)

C8_StepCycles ==
    Returned =>
        /\ ret = cycles - pre.cycles
        /\ cycles - pre.cycles >=
              OPCODE_CYCLES[op + 1]
              + (IF ServicedVia(NMI_VECTOR) \/ ServicedVia(IRQ_VECTOR) THEN 7 ELSE 0)

\* an NMI serviced and the handler's RTI executed in one step: 7 + 6 cycles
C8_Witness ==
    /\ Returned
    /\ ServicedVia(NMI_VECTOR)
    /\ op = 64
    /\ ret = 13

\* a read that crosses a page: one cycle above the table value
C8_WitnessPenalty ==
    /\ Returned
    /\ ServicedNone
    /\ op = 189
    /\ ret = 5

---------------------------------------------------------------------------
(* C9: the cycle counter never decreases over step(), trigger_nmi() and    *)
(* trigger_irq(): the trigger calls leave it unchanged and every step()    *)
(* that returns strictly increases it.                                     *)

C9_CyclesMonotonic ==
    /\ call \in {"trigger_nmi", "trigger_irq"} => cycles = pre.cycles
    /\ call = "step" => cycles >= pre.cycles
    /\ Returned => cycles > pre.cycles

\* a second step, taken after a trigger
C9_Witness ==
    /\ Returned
    /\ pre.cycles > 0
    /\ pre.interrupt = "Nmi"
    /\ cycles > pre.cycles

---------------------------------------------------------------------------
(* C10: with Absolute,X, Absolute,Y or (Indirect),Y a read-only operation  *)
(* costs the table value plus 1 when the effective address is in another   *)
(* page than the base address, and a store or a read-modify-write costs    *)
(* exactly the table value, page crossed or not.                           *)

ReadAbsX == {189, 188, 125, 253, 61, 29, 93, 221}
ReadAbsY == {185, 190, 121, 249, 57, 25, 89, 217}
ReadIndY == {177, 113, 241, 49, 17, 81, 209}
StoreIndexed == {157, 153, 145}
RmwAbsX == {254, 222, 30, 94, 62, 126}

\* the operand word and the (Indirect),Y base of the instruction at pre.regs.pc
OperandWord == MemWord(pre.mem, pre.regs.pc + 1)

OperandPointer ==
    LET zp == MemByte(pre.mem, pre.regs.pc + 1)
    IN  IF zp = 255 THEN MemByte(pre.mem, 255) + 256 * MemByte(pre.mem, 0)
        ELSE MemWord(pre.mem, zp)

Penalty(base, index) == IF (base % 256) + index > 255 THEN 1 ELSE 0

C10_ReadPenalty ==
    (Returned /\ ServicedNone) =>
        /\ op \in ReadAbsX =>
             ret = OPCODE_CYCLES[op + 1] + Penalty(OperandWord, pre.regs.x)
        /\ op \in ReadAbsY =>
             ret = OPCODE_CYCLES[op + 1] + Penalty(OperandWord, pre.regs.y)
        /\ op \in ReadIndY =>
             ret = OPCODE_CYCLES[op + 1] + Penalty(OperandPointer, pre.regs.y)

C10_StoreNoPenalty ==
    (Returned /\ ServicedNone /\ op \in StoreIndexed) => ret = OPCODE_CYCLES[op + 1]

C10_RmwNoPenalty ==
    (Returned /\ ServicedNone /\ op \in RmwAbsX) => ret = OPCODE_CYCLES[op + 1]

C10_PageCrossPenalty ==
    C10_ReadPenalty /\ C10_StoreNoPenalty /\ C10_RmwNoPenalty

---------------------------------------------------------------------------
(* Observations on the instruction the last step() executed                *)

\* the byte that follows the opcode
OperandByte == MemByte(pre.mem, (pre.regs.pc + 1) % 65536)

BranchOps == {16, 48, 80, 112, 144, 176, 208, 240}

\* the condition of the branch opcode, on the flags before the step
BranchTaken ==
    CASE op = 16 -> ~HasFlag(pre.regs.status, 128)
      [] op = 48 -> HasFlag(pre.regs.status, 128)
      [] op = 80 -> ~HasFlag(pre.regs.status, 64)
      [] op = 112 -> HasFlag(pre.regs.status, 64)
      [] op = 144 -> ~HasFlag(pre.regs.status, 1)
      [] op = 176 -> HasFlag(pre.regs.status, 1)
      [] op = 208 -> ~HasFlag(pre.regs.status, 2)
      [] op = 240 -> HasFlag(pre.regs.status, 2)
      [] OTHER -> FALSE

\* the address of the instruction after a two-byte instruction
NextInsn == (pre.regs.pc + 2) % 65536

---------------------------------------------------------------------------
(* C11: a conditional branch costs 2 cycles when not taken (PC advances by *)
(* 2), 3 cycles when taken to a target in the page of the next             *)
(* instruction and 4 cycles when taken to a target in another page; BEQ +2 *)
(* at 0x80FD with Z = 1 ends with PC = 0x8101 and a cost of 4.             *)

C11_BranchCycles ==
    (Returned /\ ServicedNone /\ op \in BranchOps) =>
        /\ ~BranchTaken => (ret = 2 /\ regs.pc = NextInsn)
        /\ (BranchTaken /\ regs.pc \div 256 = NextInsn \div 256) => ret = 3
        /\ (BranchTaken /\ regs.pc \div 256 # NextInsn \div 256) => ret = 4
        /\ (op = 240 /\ BranchTaken /\ pre.regs.pc = 33021 /\ OperandByte = 2) =>
              (regs.pc = 33025 /\ ret = 4)

\* BEQ +2 at 0x80FD with Z = 1
C11_Witness ==
    /\ Returned /\ ServicedNone
    /\ op = 240 /\ pre.regs.pc = 33021 /\ OperandByte = 2
    /\ HasFlag(pre.regs.status, 2)
    /\ regs.pc = 33025
    /\ ret = 4

\* a branch taken within the page, and a branch not taken
C11_WitnessSamePage ==
    /\ Returned /\ ServicedNone
    /\ op = 208 /\ BranchTaken /\ ret = 3

C11_WitnessNotTaken ==
    /\ Returned /\ ServicedNone
    /\ op = 208 /\ ~BranchTaken /\ ret = 2

---------------------------------------------------------------------------
(* C12: a taken branch sets PC to the address of the following instruction *)
(* plus d, the operand byte read as two's complement in -128..127, so      *)
(* every operand byte >= 0x80 branches backward.                           *)

C12_SignedDisplacement ==
    (Returned /\ ServicedNone /\ op \in BranchOps /\ BranchTaken) =>
        LET d == IF OperandByte >= 128 THEN OperandByte - 256 ELSE OperandByte
        IN  regs.pc = (NextInsn + d + 65536) % 65536

---------------------------------------------------------------------------
(* C13: JMP (indirect) with pointer p sets PC low from mem[p] and PC high  *)
(* from mem[p+1], except when the low byte of p is 0xFF, where the high    *)
(* byte is read from mem[p & 0xFF00]; with mem[0x02FF] = 0x34 and          *)
(* mem[0x0200] = 0x12, `6C FF 02` leaves PC = 0x1234.                      *)

C13_IndirectJump ==
    (Returned /\ ServicedNone /\ op = 108) =>
        LET p == OperandWord
            high == IF p % 256 = 255 THEN p - 255 ELSE p + 1
        IN  /\ regs.pc = MemByte(pre.mem, p) + 256 * MemByte(pre.mem, high)
            /\ (p = 767 /\ MemByte(pre.mem, 767) = 52 /\ MemByte(pre.mem, 512) = 18)
                  => regs.pc = 4660

\* `6C FF 02` on a memory whose next page would give 0x5634
C13_Witness ==
    /\ Returned /\ ServicedNone /\ op = 108
    /\ OperandWord = 767
    /\ MemByte(pre.mem, 768) = 86
    /\ regs.pc = 4660

\* a pointer that does not end its page
C13_WitnessInPage ==
    /\ Returned /\ ServicedNone /\ op = 108
    /\ OperandWord = 766
    /\ regs.pc = 13432

---------------------------------------------------------------------------
(* C14: BRK pushes PC+1, PC being the address that follows the BRK opcode, *)
(* then P with B = 1 and U = 1, sets I and loads PC from the word at       *)
(* 0xFFFE/0xFFFF.                                                          *)

C14_Brk ==
    (Returned /\ ServicedNone /\ op = 0) =>
        LET pushed == (pre.regs.pc + 2) % 65536
            p == pre.regs.status
              + (IF HasFlag(pre.regs.status, 16) THEN 0 ELSE 16)
              + (IF HasFlag(pre.regs.status, 32) THEN 0 ELSE 32)
        IN  /\ writes = << <<StackAt(0), pushed \div 256>>,
                           <<StackAt(1), pushed % 256>>,
                           <<StackAt(2), p>> >>
            /\ HasFlag(regs.status, 4)
            /\ regs.pc = MemWord(pre.mem, 65534)

---------------------------------------------------------------------------
(* C15: after PLP or RTI pulls the byte x from the stack into the status   *)
(* register, the register holds x | 0x20, for every x in 0..255, and the   *)
(* restore never aborts.                                                   *)

C15_RestoreForcesU ==
    (call = "step" /\ ServicedNone /\ op \in {40, 64}) =>
        LET x == MemByte(pre.mem, 256 + ((pre.regs.sp + 1) % 256))
        IN  /\ panicked = "none"
            /\ regs.status = x + (IF HasFlag(x, 32) THEN 0 ELSE 32)

---------------------------------------------------------------------------
(* C16: RTI pulls P, then PC low, then PC high, and does not increment PC; *)
(* when an interrupt is serviced at PC = p and the handler's first         *)
(* instruction is RTI, after the RTI PC = p, the I flag has its value from *)
(* before the interrupt and SP has its value from before the interrupt.    *)

C16_RtiRestores ==
    /\ (Returned /\ ServicedNone /\ op = 64) =>
          /\ regs.status = MemByte(pre.mem, 256 + ((pre.regs.sp + 1) % 256))
          /\ regs.pc = MemByte(pre.mem, 256 + ((pre.regs.sp + 2) % 256))
                       + 256 * MemByte(pre.mem, 256 + ((pre.regs.sp + 3) % 256))
          /\ regs.sp = (pre.regs.sp + 3) % 256
    /\ (Returned /\ (ServicedVia(NMI_VECTOR) \/ ServicedVia(IRQ_VECTOR)) /\ op = 64) =>
          /\ regs.pc = pre.regs.pc
          /\ HasFlag(regs.status, 4) = HasFlag(pre.regs.status, 4)
          /\ regs.sp = pre.regs.sp

\* an NMI taken with I clear after the first instruction, and returned from
C16_Witness ==
    /\ Returned /\ ServicedVia(NMI_VECTOR) /\ op = 64
    /\ pre.regs.pc # Origin
    /\ ~HasFlag(pre.regs.status, 4)
    /\ ~HasFlag(regs.status, 4)
    /\ regs.pc = pre.regs.pc
    /\ regs.sp = pre.regs.sp

\* an RTI on its own
C16_WitnessRti ==
    /\ Returned /\ ServicedNone /\ op = 64
    /\ regs.status = 16

---------------------------------------------------------------------------
(* C17: a read-modify-write instruction on memory (INC, DEC, ASL, LSR,     *)
(* ROL, ROR) writes its effective address twice: first the value it read,  *)
(* then the modified value.                                                *)

RmwMemory ==
    {230, 246, 238, 254} \cup {198, 214, 206, 222} \cup {6, 22, 14, 30}
    \cup {70, 86, 78, 94} \cup {38, 54, 46, 62} \cup {102, 118, 110, 126}

C17_RmwWritesTwice ==
    (Returned /\ ServicedNone /\ op \in RmwMemory) =>
        /\ Len(writes) = 2
        /\ writes[1][1] = writes[2][1]
        /\ writes[1][2] = MemByte(pre.mem, writes[1][1])

---------------------------------------------------------------------------
(* C18: for every SP in 0..255: push_byte stores at 0x0100|SP and then     *)
(* sets SP to (SP-1) mod 256 without failing; pull_byte sets SP to         *)
(* (SP+1) mod 256 and reads 0x0100|SP; push_word(w) followed by            *)
(* pull_word() returns w and leaves SP as it was.  PHA is push_byte(A),    *)
(* PLA is pull_byte() into A.                                              *)

C18_StackLaws ==
    /\ (call = "step" /\ ServicedNone /\ op = 72) =>
          /\ panicked = "none"
          /\ writes = << <<256 + pre.regs.sp, pre.regs.a>> >>
          /\ regs.sp = (pre.regs.sp + 255) % 256
    /\ (call = "step" /\ ServicedNone /\ op = 104) =>
          /\ panicked = "none"
          /\ regs.sp = (pre.regs.sp + 1) % 256
          /\ regs.a = MemByte(pre.mem, 256 + regs.sp)
    /\ panicked = "none" =>
          LET r == pull_word(push_word(Cpu, regs.pc))
          IN  /\ r.panic = "none"
              /\ r.val = regs.pc
              /\ r.regs.sp = regs.sp

---------------------------------------------------------------------------
(* C19: SBC with operand m leaves the same A, C, V, N and Z as ADC with    *)
(* operand m XOR 0xFF from the same starting state, and never fails on     *)
(* arithmetic underflow.  Checked on SBC #m against adc on the state       *)
(* before the step with the operand byte replaced.                         *)

C19_SbcIsAdcOfComplement ==
    (call = "step" /\ ServicedNone /\ op = 233) =>
        LET operand == (pre.regs.pc + 1) % 65536
            start == [regs |-> [pre.regs EXCEPT !.pc = operand],
                      cycles |-> pre.cycles,
                      mem |-> MemPut(pre.mem, operand, 255 - OperandByte),
                      interrupt |-> pre.interrupt,
                      panic |-> "none", val |-> 0, writes |-> <<>>]
            r == adc(start, AddressMode("Immediate", "-"))
        IN  /\ panicked = "none"
            /\ regs.a = r.regs.a
            /\ BitAnd(regs.status, 195) = BitAnd(r.regs.status, 195)

---------------------------------------------------------------------------
(* C20: ADC, for every A, m and carry-in c, whatever the D flag is:        *)
(* A' = (A+m+c) mod 256, C = (A+m+c > 255), V = (A and m have the same     *)
(* sign bit and A' has the other), Z = (A' = 0), N = bit 7 of A'; A = 0x50,*)
(* C = 0, ADC #$50 gives A = 0xA0, C = 0, V = 1, N = 1, Z = 0.             *)

C20_WitnessCarry ==
    /\ Returned /\ ServicedNone /\ op = 105
    /\ HasFlag(pre.regs.status, 1) /\ HasFlag(pre.regs.status, 8)
    /\ pre.regs.a = 255 /\ OperandByte = 0
    /\ regs.a = 0
    /\ HasFlag(regs.status, 1) /\ HasFlag(regs.status, 2)

---------------------------------------------------------------------------
(* Mapper 3                                                                *)

\* the number of 8 KiB CHR banks of the cartridge
ChrBanks == mapper3.cartridge.chr \div \h2000

\* C21: every write of V to 0x8000..0xFFFF leaves the CHR bank selector at
\* V mod N, N the number of 8 KiB CHR banks, and the selector is always in
\* 0..N-1.
C21_BankSelect ==
    /\ (call = "prg_write_byte" /\ panicked = "none" /\ arg[1] >= \h8000)
           => mapper3.chr_bank = arg[2] % ChrBanks
    /\ mapper3.chr_bank \in 0..(ChrBanks - 1)

\* C22: a PPU read at a in 0x0000..0x1FFF returns the CHR byte at offset
\* selector * 0x2000 + a, and that offset is inside the cartridge's CHR data,
\* so that the read does not abort.
C22_ChrRead ==
    (call = "ppu_read_byte" /\ arg[1] < \h2000)
        => /\ pre.mapper3.chr_bank * \h2000 + arg[1] < mapper3.cartridge.chr
           /\ panicked = "none"
           /\ ret = ChrByte(pre.mapper3.chr_bank * \h2000 + arg[1])

\* C22, for the reads whose bank the cartridge has: the byte returned is the
\* one at selector * 0x2000 + a
C22_ChrReadInBounds ==
    (call = "ppu_read_byte" /\ arg[1] < \h2000 /\ pre.mapper3.chr_bank < ChrBanks)
        => /\ panicked = "none"
           /\ ret = ChrByte(pre.mapper3.chr_bank * \h2000 + arg[1])

\* C23: PRG reads are those of NROM: a read at a in 0x8000..0xFFFF of a
\* 32 KiB PRG-ROM returns PRG byte a - 0x8000; a single 16 KiB bank is
\* mirrored, a read at a in 0xC000..0xFFFF returns what the read at
\* a - 0x4000 returns; no read aborts.
C23_PrgRead ==
    (call = "prg_read_byte" /\ arg[1] >= \h8000)
        => /\ panicked = "none"
           /\ mapper3.cartridge.prg_rom = \h8000
                  => ret = PrgByte(arg[1] - \h8000)
           /\ mapper3.cartridge.prg_rom = \h4000
                  => ret = PrgByte((arg[1] - \h8000) % \h4000)

\* C24: writes outside the switchable ranges do nothing: a PRG write below
\* 0x8000 leaves the CHR bank selector as it was, and a PPU write below
\* 0x2000 changes neither the cartridge, nor the selector, nor VRAM; both
\* return.
C24_WritesIgnored ==
    /\ (call = "prg_write_byte" /\ arg[1] < \h8000)
           => /\ panicked = "none"
              /\ mapper3 = pre.mapper3
              /\ vram = pre.vram
    /\ (call = "ppu_write_byte" /\ arg[1] < \h2000)
           => /\ panicked = "none"
              /\ mapper3 = pre.mapper3
              /\ vram = pre.vram

\* a PPU write to CHR after the selector and VRAM have been written
C24_Witness ==
    /\ call = "ppu_write_byte" /\ arg[1] = \h1FFF
    /\ mapper3.chr_bank # 0
    /\ vram # <<>>

\* a PRG write below 0x8000 after the selector has been written
C24_WitnessPrg ==
    /\ call = "prg_write_byte" /\ arg = <<\h7FFF, 3>>
    /\ mapper3.chr_bank = 1

\* C25: creating a mapper succeeds for the mapper numbers 0, 1 and 3 and
\* makes the NROM, MMC1 and CNROM variant; any other number comes back as
\* an UnsupportedMapper error, and the program does not abort.
C25_CreateMapper ==
    call = "create_mapper"
        => /\ panicked = "none"
           /\ ret = CASE arg[1].mapper = 0 -> "Nrom"
                      [] arg[1].mapper = 1 -> "Mmc1"
                      [] arg[1].mapper = 3 -> "Mapper3"
                      [] OTHER -> "UnsupportedMapper"

---------------------------------------------------------------------------
(* The command-line program                                                *)

\* the process has ended in main(), on the ROM file `file`
EndedLoading(file) ==
    call = "main" /\ cli.stage = "exited" /\ arg[1] = file

\* C26: the exit code tells the outcome: 0 on a normal quit, 1 when loading
\* the ROM fails, 2 when the mapper is unsupported; a failed load never ends
\* with 0.
C26_ExitCode ==
    /\ (EndedLoading("missing") \/ EndedLoading("not a ROM"))
           => cli.exit_code = 1
    /\ EndedLoading("mapper 2") => cli.exit_code = 2
    /\ (call \in { "quit", "run" } /\ cli.stage = "exited" /\ panicked = "none")
           => cli.exit_code = 0

\* the last turn of run's loop served the debugger exactly one line, which
\* did not parse or was a repeat with no command to repeat, and F12 was not
\* pressed
FailedCommand ==
    /\ call = "run" /\ arg[2] = FALSE
    /\ pre.emulator.mode = "Debugging"
    /\ Len(pre.cli.stdin) = 1
    /\ \/ ~parse(pre.cli.stdin[1]).ok
       \/ /\ parse(pre.cli.stdin[1]).v.k = "Repeat"
          /\ pre.emulator.last_command = None

\* C30: a debugger command that fails to parse, or a repeat with no previous
\* command, is reported to the user and the REPL goes on: the mode stays
\* Debugging, breakpoints, labels, cursor and last_command are unchanged, no
\* CPU instruction is executed and a new prompt is issued.
C30_FailedCommand ==
    FailedCommand
        => /\ cli.out # <<>>
           /\ cli.stage = "run"
           /\ emulator = pre.emulator
           /\ regs = pre.regs /\ cycles = pre.cycles
           /\ cli.prompts = pre.cli.prompts + 1

\* C30 without the report: everything but the message
C30_ReplContinues ==
    FailedCommand
        => /\ cli.stage = "run"
           /\ emulator = pre.emulator
           /\ regs = pre.regs /\ cycles = pre.cycles
           /\ cli.prompts = pre.cli.prompts + 1

---------------------------------------------------------------------------
(* Audio                                                                   *)

\* C27: AudioSink::append never fails: every call returns, also when more
\* frames are appended than the buffer has slots, and buffer_pos never
\* exceeds the length of the buffer.
C27_AppendNeverFails ==
    /\ call = "append" => panicked = "none"
    /\ sink.buffer_pos <= Len(sink.buffer)

\* C28: the sample queue between the emulator thread and the audio callback
\* is bounded: some fixed capacity is never exceeded, also when the callback
\* never runs.  The emulator thread of the model writes MaxWrites samples,
\* so a queue with any capacity below MaxWrites never holds MaxWrites.
C28_QueueBounded ==
    Len(driver.sample_buffer.samples) < MaxWrites

\* C29: successive values of time_ns() never decrease, whatever writes,
\* callbacks and time_ns() calls come between them.
C29_TimeMonotonic ==
    (call = "time_ns" /\ panicked = "none" /\ pre.clock # None)
        => ~DigitsLess(clock[1], pre.clock[1])

\* C29 for a driver that starts at zero: the time does not decrease while
\* 1_000_000_000 * samples_read fits a u64
C29_TimeMonotonicEarly ==
    (call = "time_ns" /\ panicked = "none" /\ pre.clock # None
     /\ driver.sample_buffer.samples_read.hi = 0)
        => ~DigitsLess(clock[1], pre.clock[1])

---------------------------------------------------------------------------
(* The run loop and the debugger                                           *)

\* the last operation was a turn of run's loop that found the emulator in
\* Running mode, and the process lives on
RunningTurn ==
    call = "run" /\ pre.emulator.mode = "Running" /\ panicked = "none"

\* the i-th entry of the last turn's log is a step that reported a
\* watchpoint or left PC on a breakpoint
Triggered(i) ==
    /\ cli.log[i].k = "step"
    /\ \/ cli.log[i].watch
       \/ cli.log[i].pc \in pre.emulator.breakpoints

RECURSIVE LogCycles(_)
LogCycles(log) ==
    IF log = <<>> THEN 0 ELSE Head(log).cycles + LogCycles(Tail(log))

C31_WitnessWatch ==
    /\ RunningTurn
    /\ \E i \in 1..Len(cli.log) : Triggered(i) /\ cli.log[i].watch
    /\ regs.pc \notin pre.emulator.breakpoints
    /\ emulator.mode = "Debugging"

\* C33: the pacing counter tracks the Cpu: whatever Running turns and
\* debugger commands have run, emulated_cycles is the sum of the cycle counts
\* returned by every nes.step() made so far.
C33_PacingCounter ==
    panicked = "none" => emulator.emulated_cycles = cli.stepped

\* C33 for the steps of the run loop alone: a Running turn adds to
\* emulated_cycles what its steps returned
C33_RunLoopCounts ==
    RunningTurn
        => emulator.emulated_cycles - pre.emulator.emulated_cycles
               = cli.stepped - pre.cli.stepped

\* the last operation was a Running turn that found PC on a breakpoint, as
\* after Continue in a debugger entered there
ContinuedOnBreakpoint ==
    /\ RunningTurn
    /\ pre.regs.pc \in pre.emulator.breakpoints

\* C40: continuing from a breakpoint makes progress: the instruction at the
\* breakpoint is executed before the breakpoint set is consulted again, so
\* the debugger is not entered again without a step (other than by F12).
C40_ContinueProgress ==
    ContinuedOnBreakpoint
        => /\ arg[1] > 0 => /\ cli.log # <<>>
                            /\ cli.log[1].k = "step"
                            /\ cycles > pre.cycles
           /\ \A i \in 1..Len(cli.log) :
                  cli.log[i].k = "debugger"
                      => \/ i > 1 /\ cli.log[i - 1].k = "step"
                         \/ arg[2] /\ i = Len(cli.log)
           /\ (emulator.mode = "Debugging" /\ ~arg[2]) => cli.log[1].k = "step"

\* Continue was the last command, PC was on the breakpoint at 0x8002, and the
\* turn executed the STA there, which stored to the watched 0x0200, so the
\* debugger was entered again after that instruction
C40_Witness ==
    /\ ContinuedOnBreakpoint
    /\ pre.emulator.last_command = Some([k |-> "Continue"])
    /\ pre.emulator.cursor = pre.regs.pc
    /\ Len(cli.log) = 2
    /\ cli.log[1].k = "step" /\ cli.log[2].k = "debugger"
    /\ regs.pc # pre.regs.pc
    /\ emulator.mode = "Debugging"

\* as C40_Witness, and the emulator runs on
C40_WitnessRunsOn ==
    /\ ContinuedOnBreakpoint
    /\ pre.emulator.last_command = Some([k |-> "Continue"])
    /\ cli.log # <<>>
    /\ \A i \in 1..Len(cli.log) : cli.log[i].k = "step"
    /\ emulator.mode = "Running"

---------------------------------------------------------------------------
(* Decoding and addressing                                                 *)

\* the value the rotate of the last step() found and the value it left: in
\* A for the accumulator forms, in the cell for the memory forms
RotateOperand ==
    IF op \in { \h2A, \h6A } THEN pre.regs.a ELSE MemByte(pre.mem, \h10)

RotateResult ==
    IF op \in { \h2A, \h6A } THEN regs.a
    ELSE IF writes = <<>> THEN -1 ELSE writes[Len(writes)][2]

\* C32: the official rotate opcodes decode to the right operation: 0x2A,
\* 0x26, 0x36, 0x2E, 0x3E run ROL (result = ((v << 1) mod 256) | old C, new
\* C = old bit 7) and 0x6A, 0x66, 0x76, 0x6E, 0x7E run ROR (result =
\* (v >> 1) | (old C << 7), new C = old bit 0), with Z and N from the result.
C32_RotateDecode ==
    (call = "step" /\ Handled /\ op \in RotateOps /\ pre.regs.pc = Origin) =>
        LET v == RotateOperand
            c == IF HasFlag(pre.regs.status, CARRY) THEN 1 ELSE 0
            left == op \in { \h2A, \h26, \h36, \h2E, \h3E }
            result == IF left THEN ((v * 2) % 256) + c
                      ELSE (v \div 2) + 128 * c
        IN  /\ Returned
            /\ RotateResult = result
            /\ HasFlag(regs.status, CARRY) = (IF left THEN v >= 128 ELSE v % 2 = 1)
            /\ HasFlag(regs.status, ZERO_RESULT) = (result = 0)
            /\ HasFlag(regs.status, NEGATIVE_RESULT) = (result >= 128)

\* INC, DEC, ASL, LSR, ROL, ROR and SLO with a zero-page (plain or X) and
\* with an absolute (plain, X or Y) operand
RmwZeroPage ==
    { \hE6, \hF6, \hC6, \hD6, \h06, \h16, \h46, \h56, \h26, \h36, \h66, \h76,
      \h07, \h17 }

RmwAbsolute ==
    { \hEE, \hFE, \hCE, \hDE, \h0E, \h1E, \h4E, \h5E, \h2E, \h3E, \h6E, \h7E,
      \h0F, \h1F, \h1B }

\* the effective address of the instruction at pre.regs.pc, as the operand
\* bytes behind the opcode and the index register give it
RmwAddress ==
    LET x == IF op \in { \hF6, \hD6, \h16, \h56, \h36, \h76, \h17,
                         \hFE, \hDE, \h1E, \h5E, \h3E, \h7E, \h1F }
             THEN pre.regs.x
             ELSE IF op = \h1B THEN pre.regs.y ELSE 0
    IN  IF op \in RmwZeroPage
        THEN (MemByte(pre.mem, pre.regs.pc + 1) + x) % 256
        ELSE (OperandWord + x) % U16

\* C34: a read-modify-write instruction on memory consumes its operand bytes
\* once: it writes to the effective address it read from, and leaves PC at
\* the opcode address + 2 (zero-page modes) or + 3 (absolute modes).
C34_RmwOperandOnce ==
    (Returned /\ ServicedNone /\ op \in RmwZeroPage \cup RmwAbsolute) =>
        /\ regs.pc = pre.regs.pc + (IF op \in RmwZeroPage THEN 2 ELSE 3)
        /\ writes # <<>>
        /\ \A w \in 1..Len(writes) :
               IF op \in RmwZeroPage
               THEN writes[w][1] % 256 = RmwAddress
               ELSE writes[w][1] = RmwAddress

\* the last step() ran the RTS of the subroutine, entered by the JSR at
\* Origin in the step before
ReturnedFromSub ==
    /\ Returned /\ ServicedNone /\ op = \h60
    /\ pre.regs.pc = Sub /\ pre.cycles > 0

\* C35: JSR and RTS pair up: JSR at p enters the subroutine with SP two
\* lower; the RTS of the subroutine, run with the stack as JSR left it,
\* resumes at p + 3 with SP two higher again, the value before the JSR.
C35_JsrRtsPair ==
    /\ (Returned /\ ServicedNone /\ op = \h20) =>
           /\ regs.pc = OperandWord
           /\ regs.sp = (pre.regs.sp + 254) % 256
    /\ ReturnedFromSub =>
           /\ regs.pc = Origin + 3
           /\ regs.sp = (pre.regs.sp + 2) % 256

\* C35 without the address: SP after the pair is SP before it
C35_SpRestored ==
    /\ (Returned /\ ServicedNone /\ op = \h20) =>
           regs.sp = (pre.regs.sp + 254) % 256
    /\ ReturnedFromSub => regs.sp = (pre.regs.sp + 2) % 256

\* the operand byte of the instruction at pre.regs.pc plus an index, in page
\* zero
ZeroPageAt(index) == (MemByte(pre.mem, pre.regs.pc + 1) + index) % 256

\* the pointer (Indirect,X) finds in page zero
IndirectXPointer ==
    MemByte(pre.mem, ZeroPageAt(pre.regs.x))
        + 256 * MemByte(pre.mem, ZeroPageAt(pre.regs.x + 1))

\* LDA, LDY, STA, STY zp,X; LDX, STX zp,Y; LDA, STA (zp,X)
ZeroPageIndexedOps == { \hB5, \hB4, \h95, \h94, \hB6, \h96, \hA1, \h81 }

\* C36: zero-page addressing never leaves page zero: ZeroPage,X and
\* ZeroPage,Y loads and stores use the address (operand + index) mod 256,
\* (Indirect,X) takes its pointer from (operand + X) mod 256 and
\* (operand + X + 1) mod 256, and the index addition never aborts.
C36_ZeroPageWrap ==
    (call = "step" /\ Handled /\ ServicedNone /\ op \in ZeroPageIndexedOps) =>
        /\ panicked = "none"
        /\ op = \hB5 => regs.a = MemByte(pre.mem, ZeroPageAt(pre.regs.x))
        /\ op = \hB4 => regs.y = MemByte(pre.mem, ZeroPageAt(pre.regs.x))
        /\ op = \hB6 => regs.x = MemByte(pre.mem, ZeroPageAt(pre.regs.y))
        /\ op = \h95 => writes = << <<ZeroPageAt(pre.regs.x), pre.regs.a>> >>
        /\ op = \h94 => writes = << <<ZeroPageAt(pre.regs.x), pre.regs.y>> >>
        /\ op = \h96 => writes = << <<ZeroPageAt(pre.regs.y), pre.regs.x>> >>
        /\ op = \hA1 => regs.a = MemByte(pre.mem, IndirectXPointer)
        /\ op = \h81 => writes = << <<IndirectXPointer, pre.regs.a>> >>

\* C36 while the sum of operand and index stays below 0x100
C36_ZeroPageInPage ==
    MemByte(pre.mem, pre.regs.pc + 1) + pre.regs.x + pre.regs.y < 255
        => C36_ZeroPageWrap

---------------------------------------------------------------------------
(* The sample buffer and the resampler                                     *)

\* C37: the shared sample buffer is a FIFO with no loss and no duplication:
\* in every interleaving of write_sample calls and callbacks, the samples
\* next() has returned are a prefix of the samples written, in the same
\* order, the samples still queued are the rest, and samples_written is the
\* number of write_sample calls.
C37_Fifo ==
    LET sb == driver.sample_buffer
    IN  /\ Len(sb.returned) <= Len(sb.written)
        /\ sb.returned = SubSeq(sb.written, 1, Len(sb.returned))
        /\ sb.written = sb.returned \o sb.samples
        /\ sb.samples_written = Len(sb.written)

\* a callback took samples between two writes, and a later callback took
\* a different sample that was written after the first callback
C37_Witness ==
    LET sb == driver.sample_buffer
    IN  /\ call = "callback"
        /\ Len(sb.returned) >= 2
        /\ sb.returned[1] # sb.returned[2]
        /\ Len(pre.driver.sample_buffer.returned) = 1
        /\ sb.samples # <<>>

\* C38: LinearResampler keeps its phase in range: before and after every
\* next(), 0 <= from_fract_pos <= to_sample_rate, so the weight
\* to_sample_rate - from_fract_pos never underflows; and when the input is
\* empty the resampler holds the last sample instead of failing.
C38_PhaseInRange ==
    LET r == driver.resampler
        before == pre.driver.resampler
    IN  /\ 0 <= r.from_fract_pos
        /\ r.from_fract_pos <= r.to_sample_rate
        /\ call = "callback" =>
               /\ panicked = "none"
               /\ arg[1] > 0 => (ret[3] >= 0 /\ ret[3] + ret[4] = r.to_sample_rate)
        /\ (call = "callback" /\ pre.driver.sample_buffer.samples = <<>>) =>
               /\ r.next_from_sample = before.next_from_sample
               /\ r.current_from_sample
                      \in { before.current_from_sample, before.next_from_sample }

\* a callback found the queue empty after a sample had been read, asked for
\* more, and the resampler came out with the phase at its bound, holding
\* that sample
C38_Witness ==
    /\ call = "callback" /\ arg[1] > 0
    /\ pre.driver.sample_buffer.samples = <<>>
    /\ driver.sample_buffer.samples_read # pre.driver.sample_buffer.samples_read
    /\ driver.resampler.next_from_sample # 0
    /\ driver.resampler.current_from_sample = driver.resampler.next_from_sample
    /\ pre.driver.resampler.current_from_sample # pre.driver.resampler.next_from_sample
    /\ driver.resampler.from_fract_pos = driver.resampler.to_sample_rate

\* the rates of the 2-channel formats among the formats given to the last
\* CpalDriver::new
TwoChannelRates ==
    { arg[1][i].min_sample_rate :
          i \in { j \in 1..Len(arg[1]) : arg[1][j].channels = 2 } }

\* the best of a set of rates: the desired rate, else the smallest rate
\* above it, else the largest rate below it
BestRate(rates) ==
    IF DesiredRate \in rates THEN DesiredRate
    ELSE IF \E r \in rates : r > DesiredRate
    THEN CHOOSE r \in rates : r > DesiredRate
                              /\ \A q \in rates : q > DesiredRate => r <= q
    ELSE CHOOSE r \in rates : \A q \in rates : q <= r

\* compare_sample_rates orders `rates`: comparing y with x gives the
\* reverse of comparing x with y, and Less-or-Equal is transitive
ConsistentOrder(rates) ==
    LET le(x, y) == compare_sample_rates(DesiredRate, x, y) # "Greater"
    IN  \A x, y, z \in rates :
            /\ compare_sample_rates(DesiredRate, y, x)
                   = reverse(compare_sample_rates(DesiredRate, x, y))
            /\ (le(x, y) /\ le(y, z)) => le(x, z)

\* C39: output-format selection picks the best sample rate among the
\* device's 2-channel formats: the desired rate when a format has it, else
\* the smallest rate above it, else the largest below it; and the comparison
\* is a consistent total order of the rates offered.
C39_BestFormat ==
    (call = "new" /\ arg # <<>> /\ TwoChannelRates # {})
        => /\ panicked = "none"
           /\ driver.sample_rate = BestRate(TwoChannelRates)
           /\ ConsistentOrder(TwoChannelRates)

\* C39 for devices that do not offer a rate below the desired one next to
\* the desired rate or a rate above it
C39_BestFormatNoLower ==
    (call = "new" /\ arg # <<>> /\ TwoChannelRates # {}
     /\ \/ \A r \in TwoChannelRates : r >= DesiredRate
        \/ \A r \in TwoChannelRates : r < DesiredRate)
        => /\ panicked = "none"
           /\ driver.sample_rate = BestRate(TwoChannelRates)

====
